---- MODULE Spec2Model ----
(***************************************************************************)
(* Glide <-> Google Sheet synchronisation jobs.                            *)
(*                                                                         *)
(* jobs/02_project_glide_to_sheet.py  mirror(): one-directional mirror of  *)
(* a Glide table into a sheet tab, with a digest short-circuit and the     *)
(* one-time PROJECT_UPDATED trigger.                                       *)
(* jobs/03_ccp_two_way.py  run(): two-way sync resolved by updated-at.     *)
(*                                                                         *)
(* Sheet rows are sequences of cell strings, positions are 1-based (the    *)
(* code's 0-based index ci is position ci+1 here, which is also the        *)
(* column number the code passes to batch_update_cells).  Body row i of    *)
(* the sheet is sheet row number i+1 (row 1 is the header).  The SHA-256   *)
(* digest is modelled by the blob it hashes (no collisions).               *)
(***************************************************************************)
EXTENDS Integers, Sequences, FiniteSets, TLC

\* ------------------------------------------------------------------------
\* Bounds of the model
\* ------------------------------------------------------------------------
MaxSheetRows == 2
MaxGlideRows == 2
MaxEmits == 3
MaxSheetRows3 == 2
MaxGlideRows3 == 2

\* ------------------------------------------------------------------------
\* jobs/02: configuration of the modelled deployment
\*   PROJ_SELECT_COLUMNS = {"$rowID":"Row ID","proj":"Project",
\*                          "st":"Status_assembly"},
\*   every optional variable at its default.
\* ------------------------------------------------------------------------
UNIQUE_KEY == "$rowID"
DERIVED_ID_HEADER == "ID"
PROJ_MFG_STATUS_HEADER == "Status_assembly"
PROJ_MFG_STATUS_VALUE == "mfg"
GlideCols == {"$rowID", "proj", "st"}

\* build_selected_headers(): the key's header first, the others by
\* lower-cased header, then the derived-id header.
selected_headers == <<"Row ID", "Project", "Status_assembly", "ID">>

\* s2g = {v: k for k, v in g2s.items()};  "" stands for a missing entry.
s2g(h) ==
  CASE h = "Row ID" -> "$rowID"
    [] h = "Project" -> "proj"
    [] h = "Status_assembly" -> "st"
    [] OTHER -> ""

\* Cell and field values of the model.
Keys == {"K1", "K2"}
KeyVals == Keys \cup {""}
ProjVals == {"P"}
StatusVals == {"wip", "mfg"}
IdVals == {"", "P - "}
NoteVals == {"n"}
LegacyIds == {"P -"}
WriteModes == {"delta", "full", "bogus"}

\* str.strip() on the strings of the model.
Strip(s) ==
  CASE s = "P - " -> "P -"
    [] s = "mfg " -> "mfg"
    [] s = " " -> ""
    [] s = " s1" -> "s1"
    [] OTHER -> s

\* str.lower() on the strings of the model (all are lower case or have no
\* lower-case form that matters to a comparison).
Lower(s) == s

\* norm(v) for string values: str(v).strip().
norm(v) == Strip(v)

\* ------------------------------------------------------------------------
\* Sequence helpers
\* ------------------------------------------------------------------------
\* cur_index = {h: i for i, h in enumerate(current_headers)}: the last
\* position holding h; 0 stands for "not in the dict" (None).
cur_index(hdr, h) ==
  IF \E i \in 1..Len(hdr) : hdr[i] = h
    THEN CHOOSE i \in 1..Len(hdr) :
           hdr[i] = h /\ \A j \in (i+1)..Len(hdr) : hdr[j] # h
    ELSE 0

InSeq(x, s) == \E i \in 1..Len(s) : s[i] = x

pad_row(row, width) ==
  IF Len(row) >= width
    THEN SubSeq(row, 1, width)
    ELSE row \o [i \in 1..(width - Len(row)) |-> ""]

\* [h for h in selected if h not in current]
RECURSIVE MissingFrom(_, _)
MissingFrom(sel, cur) ==
  IF sel = <<>> THEN <<>>
  ELSE IF InSeq(Head(sel), cur) THEN MissingFrom(Tail(sel), cur)
       ELSE <<Head(sel)>> \o MissingFrom(Tail(sel), cur)

\* ensure_headers_union_preserve_extras on a header row without blank cells.
ensure_headers_union_preserve_extras(current) ==
  IF current = <<>> THEN selected_headers
  ELSE current \o MissingFrom(selected_headers, current)

\* ------------------------------------------------------------------------
\* Sheet API operations on the body rows of the data tab
\* ------------------------------------------------------------------------
\* values().batchUpdate of single cells <<row number, column, value>>.
RECURSIVE batch_update_cells(_, _)
batch_update_cells(body, updates) ==
  IF updates = <<>> THEN body
  ELSE LET u == Head(updates)
           i == u[1] - 1
           b == IF i \in 1..Len(body) /\ u[2] \in 1..Len(body[i])
                  THEN [body EXCEPT ![i][u[2]] = u[3]]
                  ELSE body
       IN  batch_update_cells(b, Tail(updates))

\* sorted(row_nums_1based, reverse=True)
RECURSIVE SortDesc(_)
SortDesc(s) ==
  IF s = <<>> THEN <<>>
  ELSE LET m == CHOOSE i \in 1..Len(s) : \A j \in 1..Len(s) : s[j] <= s[i]
           rest == [j \in 1..(Len(s) - 1) |-> IF j < m THEN s[j] ELSE s[j+1]]
       IN  <<s[m]>> \o SortDesc(rest)

RemoveAt(s, i) ==
  IF i \in 1..Len(s)
    THEN [j \in 1..(Len(s) - 1) |-> IF j < i THEN s[j] ELSE s[j+1]]
    ELSE s

\* One deleteDimension request per row number, applied in the given order.
RECURSIVE DeleteInOrder(_, _)
DeleteInOrder(body, rns) ==
  IF rns = <<>> THEN body
  ELSE DeleteInOrder(RemoveAt(body, Head(rns) - 1), Tail(rns))

\* The requests issued in the order of the list, without sorting.
DeleteAsGiven(body, row_nums) == DeleteInOrder(body, row_nums)

delete_rows_by_numbers(body, row_nums) == DeleteInOrder(body, SortDesc(row_nums))

\* values().append with INSERT_ROWS: the rows go below the last data row.
append_rows(body, rows) == body \o rows

\* ------------------------------------------------------------------------
\* jobs/02: derived id, row codec, digests
\* ------------------------------------------------------------------------
\* A Glide row is a function from Glide column names to strings;
\* obj.get(k, "") of the code.
Get(obj, k) == IF k \in DOMAIN obj THEN obj[k] ELSE ""

\* _pick_derived_fields(selected_headers): no explicit env, "project" is a
\* selected header, none of "name" / "part" / "part name" is.
proj_h == "Project"
part_h == ""

derived_id(obj) ==
  IF DERIVED_ID_HEADER = "" THEN ""
  ELSE LET proj == IF proj_h # "" THEN norm(Get(obj, s2g(proj_h))) ELSE ""
           part == IF part_h # "" THEN norm(Get(obj, s2g(part_h))) ELSE ""
       IN  IF proj # "" \/ part # "" THEN proj \o " - " \o part ELSE ""

\* row_into_width(obj): the Glide row laid out on the sheet's header; cells
\* of headers that are not selected stay "".
row_into_width(obj, hdr) ==
  [i \in 1..Len(hdr) |->
     IF InSeq(hdr[i], selected_headers) /\ cur_index(hdr, hdr[i]) = i
       THEN IF hdr[i] = DERIVED_ID_HEADER
              THEN derived_id(obj)
              ELSE IF s2g(hdr[i]) # "" THEN norm(Get(obj, s2g(hdr[i]))) ELSE ""
       ELSE ""]

\* ordered = [h for h in selected_headers if h != DERIVED_ID_HEADER]
RECURSIVE Without(_, _)
Without(s, x) ==
  IF s = <<>> THEN <<>>
  ELSE IF Head(s) = x THEN Without(Tail(s), x)
       ELSE <<Head(s)>> \o Without(Tail(s), x)

ordered == Without(selected_headers, DERIVED_ID_HEADER)

\* [cur_index[h] for h in hs if h in cur_index]
RECURSIVE PositionsOf(_, _)
PositionsOf(hs, hdr) ==
  IF hs = <<>> THEN <<>>
  ELSE IF cur_index(hdr, Head(hs)) # 0
         THEN <<cur_index(hdr, Head(hs))>> \o PositionsOf(Tail(hs), hdr)
         ELSE PositionsOf(Tail(hs), hdr)

mapped_positions(hdr) == PositionsOf(selected_headers, hdr)

\* The stored digest values.  NoHash is the absent meta entry ("").
NoHash == [tag |-> "none", n |-> 0, rows |-> <<>>]

\* The digest of the blob of an empty row list, in place of the sentinel.
HashOfNoRows == [tag |-> "sha", n |-> 0, rows |-> <<>>]

\* The sentinel "EMPTY" stored when Glide returns no rows (line 513).
EmptyHash == [tag |-> "EMPTY", n |-> 0, rows |-> <<>>]

\* A digest of the keys alone.
HashRowsKeysOnly(g_rows) ==
  [tag |-> "sha",
   n |-> Len(g_rows),
   rows |-> [i \in 1..Len(g_rows) |-> <<norm(Get(g_rows[i], UNIQUE_KEY))>>]]

\* compute_hash_selected_from_rows: N, then one line per Glide row in
\* response order.
compute_hash_selected_from_rows(g_rows) ==
  [tag |-> "sha",
   n |-> Len(g_rows),
   rows |-> [i \in 1..Len(g_rows) |->
               <<norm(Get(g_rows[i], UNIQUE_KEY))>>
               \o [j \in 1..Len(ordered) |-> norm(Get(g_rows[i], s2g(ordered[j])))]
               \o <<derived_id(g_rows[i])>>]]

\* The key cell of a padded sheet row.
KeyOf(row, hdr, kc) ==
  LET prow == pad_row(row, Len(hdr)) IN IF kc <= Len(prow) THEN prow[kc] ELSE ""

\* Row i of the body carries a key, blank or not, not seen in rows 1..i-1.
FirstOccurrenceAnyKey(body, i, hdr, kc) ==
  \A j \in 1..(i-1) : KeyOf(body[j], hdr, kc) # KeyOf(body[i], hdr, kc)

\* Row i of the body carries a non-empty key not seen in rows 1..i-1.
FirstOccurrence(body, i, hdr, kc) ==
  /\ KeyOf(body[i], hdr, kc) # ""
  /\ \A j \in 1..(i-1) : KeyOf(body[j], hdr, kc) # KeyOf(body[i], hdr, kc)

\* A later row with a key already seen.
LaterOccurrence(body, i, hdr, kc) ==
  /\ KeyOf(body[i], hdr, kc) # ""
  /\ \E j \in 1..(i-1) : KeyOf(body[j], hdr, kc) = KeyOf(body[i], hdr, kc)

RECURSIVE SelectIdx(_, _, _)
\* The indices i in from..Len(body) (ascending) that satisfy keep[i].
SelectIdx(keep, from, to) ==
  IF from > to THEN <<>>
  ELSE IF keep[from] THEN <<from>> \o SelectIdx(keep, from + 1, to)
       ELSE SelectIdx(keep, from + 1, to)

FirstIdx(body, hdr, kc) ==
  SelectIdx([i \in 1..Len(body) |-> FirstOccurrence(body, i, hdr, kc)], 1, Len(body))

\* compute_hash_selected_from_sheet: first occurrence per key, rows with an
\* empty key skipped, N = number of lines.
compute_hash_selected_from_sheet(body, hdr, kc) ==
  LET idx == FirstIdx(body, hdr, kc)
      pos == PositionsOf(ordered, hdr)
      dpos == IF DERIVED_ID_HEADER # "" THEN cur_index(hdr, DERIVED_ID_HEADER) ELSE 0
      line(i) ==
        LET prow == pad_row(body[i], Len(hdr))
        IN  <<prow[kc]>>
            \o [j \in 1..Len(pos) |-> IF pos[j] <= Len(prow) THEN prow[pos[j]] ELSE ""]
            \o (IF DERIVED_ID_HEADER # ""
                  THEN <<IF dpos # 0 /\ dpos <= Len(prow) THEN prow[dpos] ELSE "">>
                  ELSE <<>>)
  IN  [tag |-> "sha", n |-> Len(idx), rows |-> [j \in 1..Len(idx) |-> line(idx[j])]]

\* ------------------------------------------------------------------------
\* jobs/02 mirror(): key indexing of both sides
\* ------------------------------------------------------------------------
\* duplicate_rows_to_delete: the row numbers of later occurrences, in row
\* order.
RECURSIVE PlusOne(_)
PlusOne(s) == IF s = <<>> THEN <<>> ELSE <<Head(s) + 1>> \o PlusOne(Tail(s))

\* Every row whose key occurs in another row, the first one included.
DuplicateRowsFirstIncluded(body, hdr, kc) ==
  PlusOne(SelectIdx([i \in 1..Len(body) |->
                       /\ KeyOf(body[i], hdr, kc) # ""
                       /\ \E j \in 1..Len(body) :
                            j # i /\ KeyOf(body[j], hdr, kc) = KeyOf(body[i], hdr, kc)],
                    1, Len(body)))

duplicate_rows_to_delete(body, hdr, kc) ==
  PlusOne(SelectIdx([i \in 1..Len(body) |-> LaterOccurrence(body, i, hdr, kc)],
                    1, Len(body)))

\* The keys of sheet_map in insertion order (a dict keeps it).
sheet_keys(body, hdr, kc) ==
  LET idx == FirstIdx(body, hdr, kc)
  IN  [j \in 1..Len(idx) |-> KeyOf(body[idx[j]], hdr, kc)]

\* rownum_by_key[k] and sheet_map[k] for a key of sheet_keys.
rownum_by_key(body, hdr, kc, k) ==
  1 + (CHOOSE i \in 1..Len(body) :
         FirstOccurrence(body, i, hdr, kc) /\ KeyOf(body[i], hdr, kc) = k)

sheet_map(body, hdr, kc, k) ==
  pad_row(body[rownum_by_key(body, hdr, kc, k) - 1], Len(hdr))

\* g_order: Glide keys by first occurrence, rows with a falsy key skipped.
GFirst(g_rows, i) ==
  /\ Get(g_rows[i], UNIQUE_KEY) # ""
  /\ \A j \in 1..(i-1) : Get(g_rows[j], UNIQUE_KEY) # Get(g_rows[i], UNIQUE_KEY)

g_order(g_rows) ==
  LET idx == SelectIdx([i \in 1..Len(g_rows) |-> GFirst(g_rows, i)], 1, Len(g_rows))
  IN  [j \in 1..Len(idx) |-> Get(g_rows[idx[j]], UNIQUE_KEY)]

InGMap(g_rows, k) ==
  k # "" /\ \E i \in 1..Len(g_rows) : Get(g_rows[i], UNIQUE_KEY) = k

\* The data of the FIRST Glide row carrying k.
g_map_first(g_rows, hdr, k) ==
  LET i == CHOOSE i \in 1..Len(g_rows) :
             /\ Get(g_rows[i], UNIQUE_KEY) = k
             /\ \A j \in 1..(i-1) : Get(g_rows[j], UNIQUE_KEY) # k
  IN  row_into_width(g_rows[i], hdr)

\* g_map[k]: the data of the LAST Glide row carrying k (g_map[sk] is
\* reassigned on every occurrence).
g_map(g_rows, hdr, k) ==
  LET i == CHOOSE i \in 1..Len(g_rows) :
             /\ Get(g_rows[i], UNIQUE_KEY) = k
             /\ \A j \in (i+1)..Len(g_rows) : Get(g_rows[j], UNIQUE_KEY) # k
  IN  row_into_width(g_rows[i], hdr)

\* ------------------------------------------------------------------------
\* jobs/02 mirror(): the PROJECT_UPDATED trigger
\* ------------------------------------------------------------------------
\* The names bound when the body of mirror() runs: its parameters, the
\* locals it assigns, its nested functions, and the module's globals it
\* reads.  status_idx and id_idx are assigned in
\* compute_hash_selected_from_sheet only, as locals of that function.
MirrorScope ==
  {"force", "dry", "inspect", "svc", "g_rows", "selected_headers", "g2s",
   "current_headers", "cur_index", "key_header", "key_col_idx_0", "meta_key",
   "meta", "prev_glide_hash", "triggered_projects", "_meta_trigger_key",
   "new_glide_hash", "run_id", "ts", "body_before", "rows_in_sheet_before",
   "rows_in_glide", "sheet_hash_now", "s2g", "sheet_map", "rownum_by_key",
   "duplicate_rows_to_delete", "rn", "proj_h", "part_h", "derived_id",
   "row_into_width", "g_map", "g_order", "mapped_positions", "updated_cells",
   "rows_to_append", "rows_to_delete", "detail_logs", "seen",
   "current_row_count", "PROJ_MFG_STATUS_VALUE", "PROJ_MFG_STATUS_HEADER",
   "DERIVED_ID_HEADER", "UNIQUE_KEY", "WRITE_MODE", "LOG_DETAILS"}

\* Evaluating a name that is not bound raises NameError.
NameError(name) == name \notin MirrorScope

\* The result of a trigger decision: it raised, or it names the legacy ids
\* to fire (appended to triggered_projects) and the flags of the local meta.
TrigRaised(flags) == [raised |-> TRUE, fire |-> <<>>, flags |-> flags]
TrigNone(flags) == [raised |-> FALSE, fire |-> <<>>, flags |-> flags]

\* The only assignments to status_idx and id_idx in the module (lines
\* 393-398); 0 stands for None.
legacy_id_header(hdr) ==
  IF InSeq("ID", hdr) THEN "ID"
  ELSE IF DERIVED_ID_HEADER # "" THEN DERIVED_ID_HEADER ELSE "ID"

status_idx(hdr) == cur_index(hdr, PROJ_MFG_STATUS_HEADER)
id_idx(hdr) == cur_index(hdr, legacy_id_header(hdr))

\* Lines 646-652: fire once per legacy id, guarded by the stored flag.
OneTimeGate(flags, legacy_cell, status_val) ==
  LET legacy_id == Strip(legacy_cell)
  IN  IF legacy_id # "" /\ Lower(Strip(status_val)) = PROJ_MFG_STATUS_VALUE
           /\ legacy_id \notin flags
        THEN [raised |-> FALSE, fire |-> <<legacy_id>>,
              flags |-> flags \cup {legacy_id}]
        ELSE TrigNone(flags)

\* The same decision without the look-up of the flag.
TriggerOnUpdateUngated(flags, sheet_vals, ci, newv, hdr) ==
  IF status_idx(hdr) # 0 /\ id_idx(hdr) # 0 /\ ci = status_idx(hdr)
       /\ Strip(sheet_vals[id_idx(hdr)]) # ""
       /\ Lower(Strip(newv)) = PROJ_MFG_STATUS_VALUE
    THEN [raised |-> FALSE, fire |-> <<Strip(sheet_vals[id_idx(hdr)])>>,
          flags |-> flags \cup {Strip(sheet_vals[id_idx(hdr)])}]
    ELSE TrigNone(flags)

\* Lines 643-652, run after a cell at position ci was found to differ.
\* The condition reads the name status_idx first.
TriggerOnUpdate(flags, sheet_vals, ci, newv, hdr) ==
  IF NameError("status_idx") THEN TrigRaised(flags)
  ELSE IF status_idx(hdr) # 0
          /\ id_idx(hdr) # 0
          /\ ci = status_idx(hdr)
         THEN OneTimeGate(flags,
                          IF id_idx(hdr) <= Len(sheet_vals)
                            THEN sheet_vals[id_idx(hdr)] ELSE "",
                          newv)
         ELSE TrigNone(flags)

\* Lines 663-672, run after a Glide row was queued for append.
TriggerOnInsert(flags, new_row_vals, hdr) ==
  IF NameError("status_idx") THEN TrigRaised(flags)
  ELSE IF status_idx(hdr) # 0
          /\ id_idx(hdr) # 0
         THEN OneTimeGate(flags,
                          IF id_idx(hdr) <= Len(new_row_vals)
                            THEN new_row_vals[id_idx(hdr)] ELSE "",
                          IF status_idx(hdr) <= Len(new_row_vals)
                            THEN new_row_vals[status_idx(hdr)] ELSE "")
         ELSE TrigNone(flags)

\* ------------------------------------------------------------------------
\* jobs/02 mirror(): the plan
\* ------------------------------------------------------------------------
\* The locals of the diff: the three plan lists, seen, triggered_projects,
\* the flags of the local meta dict, and whether an exception was raised
\* (the loops stop there).
PlanStart(dups, flags) ==
  [rows_to_delete |-> dups, updated_cells |-> <<>>, rows_to_append |-> <<>>,
   seen |-> {}, triggered |-> <<>>, flags |-> flags, raised |-> FALSE]

\* for ci in mapped_positions: ... (lines 636-654)
RECURSIVE DiffCells(_, _, _, _, _, _)
DiffCells(acc, cols, sheet_vals, new_vals, rn, hdr) ==
  IF acc.raised \/ cols = <<>> THEN acc
  ELSE LET ci == Head(cols)
           oldv == IF ci <= Len(sheet_vals) THEN sheet_vals[ci] ELSE ""
           newv == new_vals[ci]
       IN  IF oldv = newv
             THEN DiffCells(acc, Tail(cols), sheet_vals, new_vals, rn, hdr)
             ELSE LET t == TriggerOnUpdate(acc.flags, sheet_vals, ci, newv, hdr)
                      a == [acc EXCEPT
                              !.updated_cells = Append(@, <<rn, ci, newv>>),
                              !.triggered = @ \o t.fire,
                              !.flags = t.flags,
                              !.raised = t.raised]
                  IN  DiffCells(a, Tail(cols), sheet_vals, new_vals, rn, hdr)

\* for key, sheet_vals in sheet_map.items(): ... (lines 624-654)
RECURSIVE DiffKeys(_, _, _, _, _, _)
DiffKeys(acc, keys, body, g_rows, hdr, kc) ==
  IF acc.raised \/ keys = <<>> THEN acc
  ELSE LET key == Head(keys)
           rn == rownum_by_key(body, hdr, kc, key)
       IN  IF ~InGMap(g_rows, key)
             THEN DiffKeys([acc EXCEPT !.rows_to_delete = Append(@, rn)],
                           Tail(keys), body, g_rows, hdr, kc)
             ELSE DiffKeys(DiffCells([acc EXCEPT !.seen = @ \cup {key}],
                                     mapped_positions(hdr),
                                     sheet_map(body, hdr, kc, key),
                                     g_map(g_rows, hdr, key), rn, hdr),
                           Tail(keys), body, g_rows, hdr, kc)

\* for key in g_order: ... (lines 656-676)
RECURSIVE InsertKeys(_, _, _, _)
InsertKeys(acc, keys, g_rows, hdr) ==
  IF acc.raised \/ keys = <<>> THEN acc
  ELSE LET key == Head(keys) IN
       IF key \in acc.seen THEN InsertKeys(acc, Tail(keys), g_rows, hdr)
       ELSE LET row == g_map(g_rows, hdr, key)
                t == TriggerOnInsert(acc.flags, row, hdr)
                a == [acc EXCEPT
                        !.rows_to_append = Append(@, row),
                        !.triggered = @ \o t.fire,
                        !.flags = t.flags,
                        !.raised = t.raised]
            IN  InsertKeys(a, Tail(keys), g_rows, hdr)

\* The whole diff of one run (lines 555-676).
Plan(body, g_rows, hdr, kc, flags) ==
  LET dups == duplicate_rows_to_delete(body, hdr, kc)
      d == DiffKeys(PlanStart(dups, flags), sheet_keys(body, hdr, kc),
                    body, g_rows, hdr, kc)
  IN  InsertKeys(d, g_order(g_rows), g_rows, hdr)

\* ------------------------------------------------------------------------
\* jobs/03: configuration of the modelled deployment
\*   CCP_SHEET_KEY_HEADER = "CCP ID", CCP_SHEET_GLIDE_ROWID_HEADER = "Row ID",
\*   CCP_SHEET_UPDATED_AT_HEADER = "Updated At", ..._BY_HEADER = "Updated By",
\*   CCP_GLIDE_UPDATED_AT_COL = "updAt", CCP_GLIDE_UPDATED_BY_COL = "updBy",
\*   CCP_GLIDE_COLUMNS_JSON = {"CCP ID":"ccp","Desc":"desc"}
\* ------------------------------------------------------------------------
SHEET_KEY_HEADER == "CCP ID"
SHEET_ROWID_HEADER == "Row ID"
SHEET_UPDATED_AT_HEADER == "Updated At"
SHEET_UPDATED_BY_HEADER == "Updated By"
GLIDE_UPDATED_AT_COL == "updAt"
GLIDE_UPDATED_BY_COL == "updBy"

\* MAPPING.items(): <<sheet header, Glide column>> in the order of the JSON.
MAPPING == <<<<"CCP ID", "ccp">>, <<"Desc", "desc">>>>

\* Row 1 of the CCP tab: it holds every required header (the four named
\* ones and the mapped ones), so run() leaves it as it is.
Header3 ==
  <<SHEET_KEY_HEADER, SHEET_ROWID_HEADER, SHEET_UPDATED_AT_HEADER,
    SHEET_UPDATED_BY_HEADER, "Desc">>

\* idx = {h: i for i, h in enumerate(header)}; 0 stands for None.
idx3(h) == cur_index(Header3, h)

\* The updated-at literals of the model: whether the text ends with "Z",
\* holds a "T", is accepted by datetime.fromisoformat (after "Z" is replaced
\* by "+00:00"), matches one of the four strptime formats, is parsed with a
\* zone (aware), and the instant it names.
TsLiteral(s) ==
  CASE s = "2024-01-01T10:00:00Z" ->
         [z |-> TRUE, hasT |-> TRUE, iso |-> TRUE, fmt |-> FALSE, aware |-> TRUE, t |-> 1]
    [] s = "2024-01-02T10:00:00Z" ->
         [z |-> TRUE, hasT |-> TRUE, iso |-> TRUE, fmt |-> FALSE, aware |-> TRUE, t |-> 2]
    [] s = "2024-01-01 10:00:00" ->
         [z |-> FALSE, hasT |-> FALSE, iso |-> TRUE, fmt |-> TRUE, aware |-> FALSE, t |-> 1]
    [] s = "2024-01-02 10:00:00" ->
         [z |-> FALSE, hasT |-> FALSE, iso |-> TRUE, fmt |-> TRUE, aware |-> FALSE, t |-> 2]
    [] s = "2024-01-02T10:00:00" ->
         [z |-> FALSE, hasT |-> TRUE, iso |-> TRUE, fmt |-> FALSE, aware |-> FALSE, t |-> 2]
    [] OTHER ->
         [z |-> FALSE, hasT |-> FALSE, iso |-> FALSE, fmt |-> FALSE, aware |-> FALSE, t |-> 0]

\* Optional[datetime]: None, or a datetime with or without tzinfo.
NoDt == [some |-> FALSE, aware |-> FALSE, t |-> 0]
Dt(aware, t) == [some |-> TRUE, aware |-> aware, t |-> t]

\* parse_dt(s)
parse_dt(s) ==
  IF s = "" THEN NoDt
  ELSE LET l == TsLiteral(s) IN
       IF l.z /\ l.iso THEN Dt(TRUE, l.t)
       ELSE IF ~l.z /\ l.hasT /\ l.iso THEN Dt(l.aware, l.t)
       ELSE IF l.fmt THEN Dt(FALSE, l.t)
       ELSE NoDt

\* a > b on two datetimes: TypeError when exactly one carries a zone.
DtCompareRaises(a, b) == a.aware # b.aware

\* The decision without the fallback policy: the sheet always wins when no
\* timestamp is usable.
direction_sheet_default(sdt, gdt, winner) ==
  IF sdt.some /\ gdt.some
    THEN IF DtCompareRaises(sdt, gdt) THEN "raise"
         ELSE IF sdt.t > gdt.t THEN "sheet_to_glide"
         ELSE IF gdt.t > sdt.t THEN "glide_to_sheet"
         ELSE "none"
    ELSE IF sdt.some /\ ~gdt.some THEN "sheet_to_glide"
    ELSE IF gdt.some /\ ~sdt.some THEN "glide_to_sheet"
    ELSE "sheet_to_glide"

\* "decide direction" (lines 411-426); "raise" is the TypeError of sdt > gdt.
direction(sdt, gdt, winner) ==
  IF sdt.some /\ gdt.some
    THEN IF DtCompareRaises(sdt, gdt) THEN "raise"
         ELSE IF sdt.t > gdt.t THEN "sheet_to_glide"
         ELSE IF gdt.t > sdt.t THEN "glide_to_sheet"
         ELSE "none"
    ELSE IF sdt.some /\ ~gdt.some THEN "sheet_to_glide"
    ELSE IF gdt.some /\ ~sdt.some THEN "glide_to_sheet"
    ELSE IF winner = "sheet" THEN "sheet_to_glide" ELSE "glide_to_sheet"

\* glide_rowid(g)
glide_rowid(g) == Strip(Get(g, "$rowID"))

\* The key of a sheet row (r[kpos].strip()) and of a Glide row.
SheetKey3(r) == Strip(r[idx3(SHEET_KEY_HEADER)])
GlideKey3(g) == Strip(Get(g, "ccp"))

\* sheet_by_id / glide_by_id: first occurrence per non-empty key.
SheetFirst3(rows, i) ==
  SheetKey3(rows[i]) # "" /\ \A j \in 1..(i-1) : SheetKey3(rows[j]) # SheetKey3(rows[i])

GlideFirst3(g_rows, i) ==
  GlideKey3(g_rows[i]) # "" /\ \A j \in 1..(i-1) : GlideKey3(g_rows[j]) # GlideKey3(g_rows[i])

sheet_by_id(rows) ==
  SelectIdx([i \in 1..Len(rows) |-> SheetFirst3(rows, i)], 1, Len(rows))

glide_by_id(g_rows) ==
  SelectIdx([i \in 1..Len(g_rows) |-> GlideFirst3(g_rows, i)], 1, Len(g_rows))

InSheet3(rows, k) == \E i \in 1..Len(rows) : SheetKey3(rows[i]) = k
InGlide3(g_rows, k) == \E i \in 1..Len(g_rows) : GlideKey3(g_rows[i]) = k

\* glide_by_id.get(k) for a key of the map.
GlideOf3(g_rows, k) ==
  g_rows[CHOOSE i \in 1..Len(g_rows) : GlideFirst3(g_rows, i) /\ GlideKey3(g_rows[i]) = k]

\* payload_from_sheet(r): every mapped header.
payload_from_sheet(r) ==
  [i \in 1..Len(MAPPING) |-> <<MAPPING[i][2], r[idx3(MAPPING[i][1])]>>]

\* sheet_row_from_glide(g)
sheet_row_from_glide(g) ==
  [i \in 1..Len(Header3) |->
     IF \E m \in 1..Len(MAPPING) : MAPPING[m][1] = Header3[i]
       THEN Get(g, MAPPING[CHOOSE m \in 1..Len(MAPPING) : MAPPING[m][1] = Header3[i]][2])
     ELSE IF i = idx3(SHEET_UPDATED_BY_HEADER) THEN Get(g, GLIDE_UPDATED_BY_COL)
     ELSE IF i = idx3(SHEET_UPDATED_AT_HEADER) THEN Get(g, GLIDE_UPDATED_AT_COL)
     ELSE IF i = idx3(SHEET_ROWID_HEADER) THEN glide_rowid(g)
     ELSE IF i = idx3(SHEET_KEY_HEADER) THEN GlideKey3(g)
     ELSE ""]

\* The mapped columns whose sheet value differs from Glide's (lines 436-445):
\* <<Glide column, sheet value>>.
RECURSIVE DiffPayload(_, _, _)
DiffPayload(m, sr, g) ==
  IF m = <<>> THEN <<>>
  ELSE (IF sr[idx3(Head(m)[1])] # Get(g, Head(m)[2])
          THEN <<<<Head(m)[2], sr[idx3(Head(m)[1])]>>>> ELSE <<>>)
       \o DiffPayload(Tail(m), sr, g)

\* set_if_diff over the updated-at/by headers and the mapped headers (lines
\* 453-468): <<row number, column, new value>>.
RECURSIVE SetIfDiff(_, _, _)
SetIfDiff(pairs, sr, rnum) ==
  IF pairs = <<>> THEN <<>>
  ELSE (IF idx3(Head(pairs)[1]) # 0 /\ sr[idx3(Head(pairs)[1])] # Head(pairs)[2]
          THEN <<<<rnum, idx3(Head(pairs)[1]), Head(pairs)[2]>>>> ELSE <<>>)
       \o SetIfDiff(Tail(pairs), sr, rnum)

GlideToSheetPairs(g) ==
  <<<<SHEET_UPDATED_AT_HEADER, Get(g, GLIDE_UPDATED_AT_COL)>>,
    <<SHEET_UPDATED_BY_HEADER, Get(g, GLIDE_UPDATED_BY_COL)>>>>
  \o [i \in 1..Len(MAPPING) |-> <<MAPPING[i][1], Get(g, MAPPING[i][2])>>]

\* ------------------------------------------------------------------------
\* State
\* ------------------------------------------------------------------------
VARIABLES
  header,    \* jobs/02: row 1 of the data tab (non-blank header cells)
  sheet,     \* jobs/02: the body rows of the data tab, from row 2 on
  glide,     \* jobs/02: the rows the Glide query returns, in response order
  meta,      \* jobs/02: the _meta tab: stored digest and mfg_triggered flags
  emitted,   \* jobs/02: PROJECT_UPDATED events sent so far, per legacy id
  out,       \* jobs/02: what the last mirror() run planned and how it ended;
             \*          NoRun once a side has been edited since that run
  sheet3,    \* jobs/03: the body rows of the CCP tab, laid out on Header3
  glide3,    \* jobs/03: the rows of the CCP Glide table, in response order
  out3,      \* jobs/03: what the last run() decided, wrote and how it ended
  row1,      \* header step: row 1 of a data tab as the API returns it, and
             \*              the job whose header step wrote it last
  dig,       \* jobs/02 digests: two inputs and the blobs hashed for them
  fetch,     \* Glide fetch: the pages the table is served in, and the rows
             \*              a job's fetch function returned for them
  hook,      \* zai_webhook: the environment of a call of emit_zai_event, the
             \*              outcomes of its POSTs and what the call ended in
  top,       \* a job process: how run()/mirror() ended, the summary rows
             \*              appended to the log tab, the exit of the process
  sup,       \* jobs/04: the suppliers tab, the Glide table, the last run
  sched,     \* run_all: the jobs started so far and their return codes
  calls,     \* jobs/02: the calls one mirror() run made on the spreadsheet
             \*          and on Glide, in order, and how the run ended
  exec,      \* jobs/04 api_execute: the outcomes of the attempts of one call
  clip,      \* jobs/03 _clip: one value, the maximum and the clipped text
  dash       \* jobs/01: the dashboard tab, the Glide table, the last run

aux == <<row1, dig, fetch>>
more == <<calls, exec, clip, dash>>
ext == <<hook, top, sup, sched, more>>
vars ==
  <<header, sheet, glide, meta, emitted, out, sheet3, glide3, out3, row1, dig, fetch,
    hook, top, sup, sched, calls, exec, clip, dash>>

\* ------------------------------------------------------------------------
\* jobs/02: initial contents
\* ------------------------------------------------------------------------
InitHeader == <<"Row ID", "Project", "Status_assembly", "ID", "Notes">>

SheetRows ==
  {<<k, p, s, i, n>> : k \in KeyVals, p \in ProjVals, s \in StatusVals,
                       i \in IdVals, n \in NoteVals}

GlideRows == [GlideCols -> KeyVals \cup ProjVals \cup StatusVals]

GlideRowSet ==
  {g \in GlideRows : g["$rowID"] \in KeyVals /\ g["proj"] \in ProjVals
                     /\ g["st"] \in StatusVals}

SeqsUpTo(S, n) == UNION {[1..m -> S] : m \in 0..n}

\* No header step, digest or fetch has been made.
NoRow1 == [job |-> "none", cells |-> <<>>]
NoDig == [op |-> "none", of |-> "none", mapped |-> FALSE, before |-> NoHash, after |-> NoHash]
NoFetch == [job |-> "none", pages |-> <<>>, bad |-> 0, rows |-> <<>>]

\* The idle values of the webhook call, the job process, jobs/04 and the
\* scheduler.
NoHook == [state |-> "none"]
NoTop == [state |-> "none"]
NoSup == [state |-> "none"]
NoSched == [state |-> "none"]
NoCalls == [state |-> "none"]
NoExec == [state |-> "none"]
NoClip == [state |-> "none"]
NoDash == [state |-> "none"]
MoreIdle == calls = NoCalls /\ exec = NoExec /\ clip = NoClip /\ dash = NoDash
ExtIdle ==
  hook = NoHook /\ top = NoTop /\ sup = NoSup /\ sched = NoSched /\ MoreIdle

AuxIdle == row1 = NoRow1 /\ dig = NoDig /\ fetch = NoFetch /\ ExtIdle

NoRun3 ==
  [result |-> "none", winner |-> "", decisions |-> <<>>, sheet_appends |-> <<>>,
   updates_sheet |-> <<>>, glide_calls |-> <<>>]

NoRun ==
  [result |-> "none", path |-> "none", dry |-> FALSE, mode |-> "",
   force |-> FALSE, logged |-> FALSE,
   rows_to_delete |-> <<>>, updated_cells |-> <<>>,
   rows_to_append |-> <<>>, duplicates |-> <<>>, fired |-> {}]

Init02 ==
  /\ header = InitHeader
  /\ sheet \in SeqsUpTo(SheetRows, MaxSheetRows)
  /\ glide \in SeqsUpTo(GlideRowSet, MaxGlideRows)
  /\ meta \in [hash : {NoHash}, flags : SUBSET LegacyIds]
  /\ emitted = [x \in LegacyIds |-> 0]
  /\ out = NoRun
  /\ sheet3 = <<>>
  /\ glide3 = <<>>
  /\ out3 = NoRun3
  /\ AuxIdle

\* ------------------------------------------------------------------------
\* jobs/02 mirror(force, dry) under WRITE_MODE = mode, inspect = False
\* ------------------------------------------------------------------------
\* range(2, 2 + n)
RowRange(n) == [i \in 1..n |-> i + 1]

\* final_rows = [g_map[k] for k in g_order if k in g_map]
final_rows(g_rows, hdr) ==
  LET o == g_order(g_rows) IN [j \in 1..Len(o) |-> g_map(g_rows, hdr, o[j])]

\* Lines 690-713: the writes of one run to the body of the data tab.
ApplyWrites(body, p, mode, g_rows, hdr) ==
  IF mode = "delta"
    THEN append_rows(
           delete_rows_by_numbers(batch_update_cells(body, p.updated_cells),
                                  p.rows_to_delete),
           p.rows_to_append)
    ELSE final_rows(g_rows, hdr)

\* sorted(set(x for x in triggered_projects if str(x).strip()))
FiredSet(triggered) ==
  {triggered[i] : i \in {j \in 1..Len(triggered) : Strip(triggered[j]) # ""}}

\* The status cell of a retained sheet row differs from Glide, Glide holds
\* the mfg value and the row's ID cell is x; or a Glide row in mfg whose
\* derived id is x has no sheet row.
BecameMfg(body, g_rows, hdr, kc, x) ==
  \/ \E i \in 1..Len(body) :
       /\ FirstOccurrence(body, i, hdr, kc)
       /\ InGMap(g_rows, KeyOf(body[i], hdr, kc))
       /\ Strip(body[i][cur_index(hdr, "ID")]) = x
       /\ LET nv == g_map(g_rows, hdr, KeyOf(body[i], hdr, kc))[status_idx(hdr)]
          IN  nv # body[i][status_idx(hdr)] /\ Lower(Strip(nv)) = PROJ_MFG_STATUS_VALUE
  \/ \E i \in 1..Len(g_rows) :
       LET k == Get(g_rows[i], UNIQUE_KEY) IN
       /\ k # ""
       /\ \A j \in 1..Len(body) : KeyOf(body[j], hdr, kc) # k
       /\ Strip(g_map(g_rows, hdr, k)[cur_index(hdr, "ID")]) = x
       /\ Lower(Strip(g_map(g_rows, hdr, k)[status_idx(hdr)])) = PROJ_MFG_STATUS_VALUE

\* The skip decided on the stored digest alone.
ShouldSkipStoredOnly(force, prev_glide_hash, new_glide_hash, sheet_hash_now) ==
  ~force /\ prev_glide_hash = new_glide_hash

\* The condition of the hash-match return (line 544).
ShouldSkip(force, prev_glide_hash, new_glide_hash, sheet_hash_now) ==
  /\ ~force
  /\ prev_glide_hash = new_glide_hash
  /\ sheet_hash_now = new_glide_hash

\* One run of mirror(force, dry) with WRITE_MODE = mode; the arguments and
\* the environment of the process are chosen per run.  out.logged: a row was
\* appended to the run log (log_run_summary, LOG_ENABLED at its default).
Mirror ==
  /\ \A x \in LegacyIds : emitted[x] < MaxEmits
  /\ UNCHANGED <<glide, sheet3, glide3, out3, aux, ext>>
  /\ \E hdr \in {ensure_headers_union_preserve_extras(header)} :
     \E kc \in {cur_index(hdr, IF InSeq("Row ID", hdr) THEN "Row ID"
                                ELSE selected_headers[1])} :
     \E p \in {Plan(sheet, glide, hdr, kc, meta.flags)} :
     \E dups \in {duplicate_rows_to_delete(sheet, hdr, kc)} :
     \E new_glide_hash \in {IF glide # <<>>
                              THEN compute_hash_selected_from_rows(glide)
                              ELSE EmptyHash} :
     \E sheet_hash_now \in {compute_hash_selected_from_sheet(sheet, hdr, kc)} :
     \E frc \in BOOLEAN :
     LET prev_glide_hash == meta.hash
         force == frc
         n == Len(sheet)
         res(r, path, dr, wm, del, upd, app, dup, fired) ==
           [result |-> r, path |-> path, dry |-> dr, mode |-> wm,
            force |-> frc, logged |-> (path = "skip" \/ r = "ok"),
            rows_to_delete |-> del,
            updated_cells |-> upd, rows_to_append |-> app,
            duplicates |-> dup, fired |-> fired]
     IN
     /\ header' = hdr
     /\ \E dry \in BOOLEAN, mode \in WriteModes :
        IF glide = <<>>
          THEN \* Glide empty => wipe sheet (lines 526-541)
               /\ out' = res(IF dry THEN "dry" ELSE "ok", "wipe", dry, mode, RowRange(n),
                             <<>>, <<>>, <<>>, {})
               /\ sheet' = IF dry THEN sheet
                           ELSE delete_rows_by_numbers(sheet, RowRange(n))
               /\ meta' = IF dry THEN meta ELSE [meta EXCEPT !.hash = new_glide_hash]
               /\ UNCHANGED emitted
          ELSE IF ShouldSkip(force, prev_glide_hash, new_glide_hash, sheet_hash_now)
          THEN \* hash match (lines 544-551)
               /\ out' = res("skipped", "skip", dry, mode, <<>>, <<>>, <<>>, <<>>, {})
               /\ UNCHANGED <<sheet, meta, emitted>>
          ELSE IF p.raised \/ (~dry /\ mode \notin {"delta", "full"})
          THEN \* NameError in the diff, or SystemExit on the write mode
               /\ out' = res("error", "diff", dry, mode, p.rows_to_delete, p.updated_cells,
                             p.rows_to_append, dups, {})
               /\ UNCHANGED <<sheet, meta, emitted>>
          ELSE IF dry
          THEN \* lines 678-688
               /\ out' = res("dry", "diff", dry, mode, p.rows_to_delete, p.updated_cells,
                             p.rows_to_append, dups, {})
               /\ UNCHANGED <<sheet, meta, emitted>>
          ELSE \* lines 690-748
               /\ out' = res("ok", "diff", dry, mode, p.rows_to_delete, p.updated_cells,
                             p.rows_to_append, dups, FiredSet(p.triggered))
               /\ sheet' = ApplyWrites(sheet, p, mode, glide, hdr)
               /\ meta' = [hash |-> new_glide_hash, flags |-> p.flags]
               /\ emitted' = [x \in LegacyIds |->
                                IF x \in FiredSet(p.triggered)
                                  THEN emitted[x] + 1 ELSE emitted[x]]

\* Between two runs a user of the Glide app sets the status of a record.
GlideEdit ==
  /\ \E i \in 1..Len(glide), v \in StatusVals :
       /\ glide[i]["st"] # v
       /\ glide' = [glide EXCEPT ![i]["st"] = v]
  /\ out' = NoRun
  /\ UNCHANGED <<header, sheet, meta, emitted, sheet3, glide3, out3, aux, ext>>

\* Between two runs a user of the sheet rewrites the status cell of a row.
SheetEdit ==
  /\ \E i \in 1..Len(sheet), v \in StatusVals :
       /\ cur_index(header, PROJ_MFG_STATUS_HEADER) # 0
       /\ sheet[i][cur_index(header, PROJ_MFG_STATUS_HEADER)] # v
       /\ sheet' = [sheet EXCEPT ![i][cur_index(header, PROJ_MFG_STATUS_HEADER)] = v]
  /\ out' = NoRun
  /\ UNCHANGED <<header, glide, meta, emitted, sheet3, glide3, out3, aux, ext>>

Next02 == Mirror \/ GlideEdit \/ SheetEdit

\* ------------------------------------------------------------------------
\* jobs/03: initial contents
\* ------------------------------------------------------------------------
CcpKeys == {"C1", "C2"}
DescVals == {"a", "b"}
SheetTsVals == {"", "2024-01-01 10:00:00", "2024-01-02T10:00:00Z"}
GlideTsVals == {"n/a", "2024-01-01T10:00:00Z", "2024-01-02T10:00:00Z",
                "2024-01-02 10:00:00"}
Winners == {"sheet", "glide"}

\* The row ids Glide hands out, by position in the table.
RowIds == <<"r1", "r2", "r3", "r4">>

SheetRows3 ==
  {<<k, p, t, "s", d>> : k \in CcpKeys, p \in {"", "r1"}, t \in SheetTsVals,
                         d \in DescVals}

GlideRow3(id, k, d, t, by) ==
  [c \in {"$rowID", "ccp", "desc", "updAt", "updBy"} |->
     CASE c = "$rowID" -> id
       [] c = "ccp" -> k
       [] c = "desc" -> d
       [] c = "updAt" -> t
       [] OTHER -> by]

GlideData3 == {<<k, t>> : k \in CcpKeys, t \in GlideTsVals}

GlideTable3(data) ==
  [i \in 1..Len(data) |-> GlideRow3(RowIds[i], data[i][1], "a", data[i][2], "g")]

Init03 ==
  /\ header = InitHeader
  /\ sheet = <<>>
  /\ glide = <<>>
  /\ meta = [hash |-> NoHash, flags |-> {}]
  /\ emitted = [x \in LegacyIds |-> 0]
  /\ out = NoRun
  /\ sheet3 \in SeqsUpTo(SheetRows3, MaxSheetRows3)
  /\ glide3 \in {GlideTable3(d) : d \in SeqsUpTo(GlideData3, MaxGlideRows3)}
  /\ out3 = NoRun3
  /\ AuxIdle

\* ------------------------------------------------------------------------
\* jobs/03 run() under CCP_CONFLICT_WINNER = winner
\* ------------------------------------------------------------------------
\* add-row-to-table: Glide stores the column values under a new row id.
glide_add_row(table, payload) ==
  Append(table,
         [c \in {"$rowID", "ccp", "desc", "updAt", "updBy"} |->
            IF c = "$rowID" THEN RowIds[Len(table) + 1]
            ELSE IF \E i \in 1..Len(payload) : payload[i][1] = c
              THEN payload[CHOOSE i \in 1..Len(payload) : payload[i][1] = c][2]
            ELSE ""])

\* set-columns-in-row: the named columns of the row with that id.
glide_set_columns(table, row_id, payload) ==
  [i \in 1..Len(table) |->
     IF table[i]["$rowID"] # row_id THEN table[i]
     ELSE [c \in DOMAIN table[i] |->
             IF \E j \in 1..Len(payload) : payload[j][1] = c
               THEN payload[CHOOSE j \in 1..Len(payload) : payload[j][1] = c][2]
               ELSE table[i][c]]]

\* A) Glide-only rows -> append to sheet (lines 386-391).
GlideOnly(g_rows, rows) ==
  LET ks == glide_by_id(g_rows)
      only == SelectIdx([j \in 1..Len(ks) |-> ~InSheet3(rows, GlideKey3(g_rows[ks[j]]))],
                        1, Len(ks))
  IN  [j \in 1..Len(only) |-> sheet_row_from_glide(g_rows[ks[only[j]]])]

LoopStart(table) ==
  [glide |-> table, updates_sheet |-> <<>>, glide_calls |-> <<>>,
   decisions |-> <<>>, raised |-> FALSE]

\* always repair pointer in sheet if missing (lines 428-432)
PointerRepair(sr, rnum, g) ==
  IF glide_rowid(g) # "" /\ Strip(sr[idx3(SHEET_ROWID_HEADER)]) # glide_rowid(g)
    THEN <<<<rnum, idx3(SHEET_ROWID_HEADER), glide_rowid(g)>>>>
    ELSE <<>>

\* B) the loop over sheet_by_id (lines 394-468); is holds the body indices of
\* the keyed rows still to process, g_rows the rows fetched at the start.
\* The Glide mutations are sent inside the loop, the sheet updates are only
\* collected.
RECURSIVE SheetLoop(_, _, _, _, _)
SheetLoop(acc, is, rows, g_rows, winner) ==
  IF is = <<>> \/ acc.raised THEN acc
  ELSE
    LET sr == rows[Head(is)]
        rnum == Head(is) + 1
        gid == SheetKey3(sr)
        dec(d) == [key |-> gid, rnum |-> rnum, direction |-> d]
    IN
    IF ~InGlide3(g_rows, gid)
      THEN SheetLoop(
             [acc EXCEPT !.glide = glide_add_row(@, payload_from_sheet(sr)),
                         !.glide_calls = Append(@, <<"add", "", payload_from_sheet(sr)>>),
                         !.decisions = Append(@, dec("add_glide"))],
             Tail(is), rows, g_rows, winner)
      ELSE
        LET g == GlideOf3(g_rows, gid)
            sdt == parse_dt(Strip(sr[idx3(SHEET_UPDATED_AT_HEADER)]))
            gdt == parse_dt(Strip(Get(g, GLIDE_UPDATED_AT_COL)))
            d == direction(sdt, gdt, winner)
            payload == DiffPayload(MAPPING, sr, g)
        IN
        IF d = "raise"
          THEN [acc EXCEPT !.raised = TRUE, !.decisions = Append(@, dec(d))]
        ELSE IF d = "sheet_to_glide"
          THEN SheetLoop(
                 [acc EXCEPT
                    !.updates_sheet = @ \o PointerRepair(sr, rnum, g),
                    !.glide = IF payload # <<>>
                                THEN glide_set_columns(@, glide_rowid(g), payload)
                                ELSE @,
                    !.glide_calls = IF payload # <<>>
                                      THEN Append(@, <<"set", glide_rowid(g), payload>>)
                                      ELSE @,
                    !.decisions = Append(@, dec(d))],
                 Tail(is), rows, g_rows, winner)
        ELSE IF d = "glide_to_sheet"
          THEN SheetLoop(
                 [acc EXCEPT
                    !.updates_sheet = @ \o PointerRepair(sr, rnum, g)
                                        \o SetIfDiff(GlideToSheetPairs(g), sr, rnum),
                    !.decisions = Append(@, dec(d))],
                 Tail(is), rows, g_rows, winner)
        ELSE SheetLoop(
                 [acc EXCEPT
                    !.updates_sheet = @ \o PointerRepair(sr, rnum, g),
                    !.decisions = Append(@, dec(d))],
                 Tail(is), rows, g_rows, winner)

\* One run of run(); the process's CCP_CONFLICT_WINNER is chosen per run.  An
\* exception leaves the sheet as it was (its writes come after the loop) and
\* Glide with the mutations already sent.
Run03 ==
  /\ UNCHANGED <<header, sheet, glide, meta, emitted, out, aux, ext>>
  /\ \E winner \in Winners :
     \E a \in {SheetLoop(LoopStart(glide3), sheet_by_id(sheet3), sheet3, glide3,
                         winner)} :
     \E sheet_appends \in {GlideOnly(glide3, sheet3)} :
       /\ glide3' = a.glide
       /\ sheet3' = IF a.raised THEN sheet3
                    ELSE batch_update_cells(append_rows(sheet3, sheet_appends),
                                            a.updates_sheet)
       /\ out3' = [result |-> IF a.raised THEN "error" ELSE "ok",
                   winner |-> winner,
                   decisions |-> a.decisions,
                   sheet_appends |-> sheet_appends,
                   updates_sheet |-> a.updates_sheet,
                   glide_calls |-> a.glide_calls]

Next03 == Run03
Spec03 == Init03 /\ [][Next03]_vars

\* ------------------------------------------------------------------------
\* The other jobs at rest, for the specifications of single functions
\* ------------------------------------------------------------------------
Idle02 ==
  /\ header = InitHeader
  /\ sheet = <<>>
  /\ glide = <<>>
  /\ meta = [hash |-> NoHash, flags |-> {}]
  /\ emitted = [x \in LegacyIds |-> 0]
  /\ out = NoRun

Idle03 == sheet3 = <<>> /\ glide3 = <<>> /\ out3 = NoRun3

\* ------------------------------------------------------------------------
\* Header step of jobs 02, 03 and 04 on row 1 of the data tab
\* ------------------------------------------------------------------------
MaxHeaderCells == 3

\* The cells a prior header row is made of; "" is a blank cell.  The API
\* returns the row up to its last non-blank cell.
HeaderCells == {"", "Row ID", "Notes", "CCP ID"}

Row1Set ==
  {c \in SeqsUpTo(HeaderCells, MaxHeaderCells) : c = <<>> \/ c[Len(c)] # ""}

\* jobs/03 and jobs/04: required_headers (the key's header is listed again
\* among the mapped headers).  jobs/04 under SUP_SHEET_KEY_HEADER =
\* "Supplier ID", SUP_SHEET_GLIDE_ROWID_HEADER = "Row ID",
\* SUP_GLIDE_COLUMNS_JSON = {"Supplier ID":"sid","Name":"name"}.
required_headers3 ==
  <<SHEET_KEY_HEADER, SHEET_ROWID_HEADER, SHEET_UPDATED_AT_HEADER,
    SHEET_UPDATED_BY_HEADER>> \o [i \in 1..Len(MAPPING) |-> MAPPING[i][1]]

required_headers4 == <<"Supplier ID", "Row ID", "Supplier ID", "Name">>

\* get_header of jobs/02, and get_header followed by the filter of run() in
\* jobs/03 and jobs/04: the stripped cells that are not blank.
RECURSIVE get_header(_)
get_header(cells) ==
  IF cells = <<>> THEN <<>>
  ELSE (IF Strip(Head(cells)) # "" THEN <<Strip(Head(cells))>> ELSE <<>>)
       \o get_header(Tail(cells))

\* values().update of A1:<end>1 with one row of Len(hdr) values: the cells
\* to the right of the written range stay as they are.
set_header(cells, hdr) ==
  hdr \o (IF Len(cells) > Len(hdr) THEN SubSeq(cells, Len(hdr) + 1, Len(cells)) ELSE <<>>)

\* The header step of run() in jobs/03 (lines 316-324) and jobs/04 (lines
\* 413-421) for the job's required headers.
ensure_required_headers(cells, required) ==
  LET hdr == get_header(cells)
      missing == MissingFrom(required, hdr)
  IN  IF missing # <<>> THEN set_header(cells, hdr \o missing) ELSE cells

\* jobs/02: ensure_headers_union_preserve_extras on the row as it is stored;
\* a run that writes in full mode clears the tab and writes the list again.
HeaderStep02 ==
  /\ \E full \in BOOLEAN :
       LET current == get_header(row1.cells)
           after == ensure_headers_union_preserve_extras(current)
       IN  row1' = [job |-> "02",
                    cells |-> IF full THEN after
                              ELSE IF after # current \/ current = <<>>
                                THEN set_header(row1.cells, after)
                                ELSE row1.cells]
  /\ UNCHANGED <<header, sheet, glide, meta, emitted, out, sheet3, glide3, out3, dig, fetch, ext>>

HeaderStep03 ==
  /\ row1' = [job |-> "03", cells |-> ensure_required_headers(row1.cells, required_headers3)]
  /\ UNCHANGED <<header, sheet, glide, meta, emitted, out, sheet3, glide3, out3, dig, fetch, ext>>

HeaderStep04 ==
  /\ row1' = [job |-> "04", cells |-> ensure_required_headers(row1.cells, required_headers4)]
  /\ UNCHANGED <<header, sheet, glide, meta, emitted, out, sheet3, glide3, out3, dig, fetch, ext>>

InitRow1 ==
  /\ Idle02 /\ Idle03
  /\ row1 \in [job : {"none"}, cells : Row1Set]
  /\ dig = NoDig
  /\ fetch = NoFetch
  /\ ExtIdle

NextRow1 == HeaderStep02 \/ HeaderStep03 \/ HeaderStep04
SpecRow1 == InitRow1 /\ [][NextRow1]_vars

\* ------------------------------------------------------------------------
\* jobs/02: the two digest functions applied to an input and to a variant
\* ------------------------------------------------------------------------
MaxDigestRows == 2

\* A Glide row with a column that PROJ_SELECT_COLUMNS does not name.
GlideColsD == GlideCols \cup {"note"}

DigestVals(c) ==
  CASE c = "$rowID" -> KeyVals
    [] c = "proj" -> {"P", "Q"}
    [] c = "st" -> {"wip", "mfg", "mfg "}
    [] OTHER -> {"n", "m"}

GlideRowsD ==
  {g \in [GlideColsD -> KeyVals \cup {"P", "Q", "wip", "mfg", "mfg ", "n", "m"}] :
     \A c \in GlideColsD : g[c] \in DigestVals(c)}

SheetCellsD(ci) ==
  CASE ci = 1 -> KeyVals
    [] ci = 2 -> {"P", "Q"}
    [] ci = 3 -> {"wip", "mfg"}
    [] ci = 4 -> IdVals
    [] OTHER -> {"n", "m"}

SheetRowsD ==
  {<<k, p, t, i, n>> : k \in SheetCellsD(1), p \in SheetCellsD(2), t \in SheetCellsD(3),
                       i \in SheetCellsD(4), n \in SheetCellsD(5)}

\* The two rows of a list in the other order.
Swapped(rows) == <<rows[2], rows[1]>>

DigestOfSheet(body) ==
  compute_hash_selected_from_sheet(body, InitHeader, cur_index(InitHeader, "Row ID"))

\* compute_hash_selected_from_rows before and after one column of one Glide
\* row is given another value (another value once normalised, for a mapped
\* column).
HashGlideField ==
  /\ dig = NoDig
  /\ \E g_rows \in SeqsUpTo(GlideRowsD, MaxDigestRows) :
     \E i \in 1..Len(g_rows), c \in GlideColsD :
     \E v \in DigestVals(c) :
       /\ norm(v) # norm(g_rows[i][c])
       /\ dig' = [op |-> "field", of |-> "rows", mapped |-> c \in GlideCols,
                  before |-> compute_hash_selected_from_rows(g_rows),
                  after |-> compute_hash_selected_from_rows(
                              [g_rows EXCEPT ![i][c] = v])]
  /\ UNCHANGED <<header, sheet, glide, meta, emitted, out, sheet3, glide3, out3, row1, fetch, ext>>

\* The same rows of the two bodies are the first occurrences of their keys.
SameRecords(body, other) ==
  \A j \in 1..Len(body) :
    FirstOccurrence(body, j, InitHeader, cur_index(InitHeader, "Row ID"))
      <=> FirstOccurrence(other, j, InitHeader, cur_index(InitHeader, "Row ID"))

\* compute_hash_selected_from_sheet before and after one cell of one
\* retained sheet row is given another value, the rows that are records
\* staying the same rows.
HashSheetField ==
  /\ dig = NoDig
  /\ \E body \in SeqsUpTo(SheetRowsD, MaxDigestRows) :
     \E i \in 1..Len(body), ci \in 1..Len(InitHeader) :
     \E v \in SheetCellsD(ci) :
       /\ FirstOccurrence(body, i, InitHeader, cur_index(InitHeader, "Row ID"))
       /\ v # body[i][ci]
       /\ SameRecords(body, [body EXCEPT ![i][ci] = v])
       /\ dig' = [op |-> "field", of |-> "sheet",
                  mapped |-> InSeq(InitHeader[ci], selected_headers),
                  before |-> DigestOfSheet(body),
                  after |-> DigestOfSheet([body EXCEPT ![i][ci] = v])]
  /\ UNCHANGED <<header, sheet, glide, meta, emitted, out, sheet3, glide3, out3, row1, fetch, ext>>

\* The two functions on two records with different non-empty keys, in one
\* order and in the other.
HashGlideOrder ==
  /\ dig = NoDig
  /\ \E g_rows \in [1..2 -> GlideRowsD] :
       /\ g_rows[1]["$rowID"] # "" /\ g_rows[2]["$rowID"] # ""
       /\ g_rows[1]["$rowID"] # g_rows[2]["$rowID"]
       /\ dig' = [op |-> "order", of |-> "rows", mapped |-> FALSE,
                  before |-> compute_hash_selected_from_rows(g_rows),
                  after |-> compute_hash_selected_from_rows(Swapped(g_rows))]
  /\ UNCHANGED <<header, sheet, glide, meta, emitted, out, sheet3, glide3, out3, row1, fetch, ext>>

HashSheetOrder ==
  /\ dig = NoDig
  /\ \E body \in [1..2 -> SheetRowsD] :
       /\ body[1][1] # "" /\ body[2][1] # "" /\ body[1][1] # body[2][1]
       /\ dig' = [op |-> "order", of |-> "sheet", mapped |-> FALSE,
                  before |-> DigestOfSheet(body),
                  after |-> DigestOfSheet(Swapped(body))]
  /\ UNCHANGED <<header, sheet, glide, meta, emitted, out, sheet3, glide3, out3, row1, fetch, ext>>

InitDigest ==
  /\ Idle02 /\ Idle03
  /\ row1 = NoRow1
  /\ dig = NoDig
  /\ fetch = NoFetch
  /\ ExtIdle

NextDigest == HashGlideField \/ HashSheetField \/ HashGlideOrder \/ HashSheetOrder
SpecDigest == InitDigest /\ [][NextDigest]_vars

\* ------------------------------------------------------------------------
\* The Glide fetch of each job against a table served in pages
\* ------------------------------------------------------------------------
MaxPages == 2
MaxPageRows == 2

\* queryTables: the table is served as pages; the response to a query that
\* starts at page p is [{"rows": page p, "next": token of page p + 1}], with
\* no "next" on the last page.  0 stands for the absent token.  The response
\* for page bad (0: none) comes in a shape the fetcher does not recognise
\* (a JSON object with an error message, say).
PageSeqs == {ps \in SeqsUpTo(SeqsUpTo(Keys, MaxPageRows), MaxPages) : ps # <<>>}

Respond(pages, bad, start_at) ==
  LET p == IF start_at = 0 THEN 1 ELSE start_at
  IN  [recognized |-> p # bad,
       rows |-> IF p # bad THEN pages[p] ELSE <<>>,
       next |-> IF p # bad /\ p < Len(pages) THEN p + 1 ELSE 0]

RECURSIVE AllPages(_)
\* Every row of the table, page after page.
AllPages(pages) ==
  IF pages = <<>> THEN <<>> ELSE Head(pages) \o AllPages(Tail(pages))

RECURSIVE glide_query_rows(_, _, _, _, _)
\* glide_query_rows of jobs/01, 03, 04: the while loop; on the expected
\* shape all_rows.extend(rows), then start_at = block.get("next").  On any
\* other shape jobs/01 and jobs/03 return [] (jobs/01 after its fallbacks for
\* older shapes), jobs/04 returns all_rows.
glide_query_rows(job, pages, bad, start_at, all_rows) ==
  LET block == Respond(pages, bad, start_at)
  IN  IF ~block.recognized
        THEN (IF job = "04" THEN all_rows ELSE <<>>)
      ELSE IF block.next # 0
        THEN glide_query_rows(job, pages, bad, block.next, all_rows \o block.rows)
        ELSE all_rows \o block.rows

\* jobs/02 glide_fetch_all: one POST without startAt, extract_glide_rows
\* returns payload[0]["rows"], or [] for a payload it does not recognise.
glide_fetch_all(pages, bad) == Respond(pages, bad, 0).rows

\* legacy.py glide_fetch_all with GLIDE_MODE at its default "legacy":
\* _legacy_fetch, one POST, the "rows" list of the first container, [] when
\* there is none.
legacy_fetch(pages, bad) == Respond(pages, bad, 0).rows

Fetch01 ==
  /\ fetch = NoFetch
  /\ \E pages \in PageSeqs, bad \in 0..MaxPages :
       /\ bad <= Len(pages)
       /\ fetch' = [job |-> "01", pages |-> pages, bad |-> bad,
                   rows |-> glide_query_rows("01", pages, bad, 0, <<>>)]
  /\ UNCHANGED <<header, sheet, glide, meta, emitted, out, sheet3, glide3, out3, row1, dig, ext>>

Fetch02 ==
  /\ fetch = NoFetch
  /\ \E pages \in PageSeqs, bad \in 0..MaxPages :
       /\ bad <= Len(pages)
       /\ fetch' = [job |-> "02", pages |-> pages, bad |-> bad,
                   rows |-> glide_fetch_all(pages, bad)]
  /\ UNCHANGED <<header, sheet, glide, meta, emitted, out, sheet3, glide3, out3, row1, dig, ext>>

Fetch03 ==
  /\ fetch = NoFetch
  /\ \E pages \in PageSeqs, bad \in 0..MaxPages :
       /\ bad <= Len(pages)
       /\ fetch' = [job |-> "03", pages |-> pages, bad |-> bad,
                   rows |-> glide_query_rows("03", pages, bad, 0, <<>>)]
  /\ UNCHANGED <<header, sheet, glide, meta, emitted, out, sheet3, glide3, out3, row1, dig, ext>>

Fetch04 ==
  /\ fetch = NoFetch
  /\ \E pages \in PageSeqs, bad \in 0..MaxPages :
       /\ bad <= Len(pages)
       /\ fetch' = [job |-> "04", pages |-> pages, bad |-> bad,
                   rows |-> glide_query_rows("04", pages, bad, 0, <<>>)]
  /\ UNCHANGED <<header, sheet, glide, meta, emitted, out, sheet3, glide3, out3, row1, dig, ext>>

FetchLegacy ==
  /\ fetch = NoFetch
  /\ \E pages \in PageSeqs, bad \in 0..MaxPages :
       /\ bad <= Len(pages)
       /\ fetch' = [job |-> "legacy", pages |-> pages, bad |-> bad,
                   rows |-> legacy_fetch(pages, bad)]
  /\ UNCHANGED <<header, sheet, glide, meta, emitted, out, sheet3, glide3, out3, row1, dig, ext>>

InitFetch ==
  /\ Idle02 /\ Idle03
  /\ row1 = NoRow1
  /\ dig = NoDig
  /\ fetch = NoFetch
  /\ ExtIdle

NextFetch == Fetch01 \/ Fetch02 \/ Fetch03 \/ Fetch04 \/ FetchLegacy
SpecFetch == InitFetch /\ [][NextFetch]_vars

\* ------------------------------------------------------------------------
\* zai_webhook.emit_zai_event
\* ------------------------------------------------------------------------
MaxRetries == 2

\* What one requests.post can end in: a 2xx response, another status, an
\* exception of the transport, a timeout (requests.Timeout).
PostOutcomes == {"2xx", "non2xx", "exception", "timeout"}

\* Values of ZAI_WEBHOOK_RETRIES and ZAI_WEBHOOK_TIMEOUT_S after _opt():
\* unset or blank (""), a number, a word.
RetriesEnv == {"", "two"} \cup {ToString(n) : n \in 0..MaxRetries}
TimeoutEnv == {"", "20", "fast"}

\* int(_opt("ZAI_WEBHOOK_RETRIES", "2") or 2), line 46: raises ValueError on
\* a string that is not an integer literal.
IntRaises(s) == s # "" /\ \A n \in 0..MaxRetries : ToString(n) # s
IntOf(s) == IF s = "" THEN 2 ELSE CHOOSE n \in 0..MaxRetries : ToString(n) = s

\* float(_opt("ZAI_WEBHOOK_TIMEOUT_S", "20") or 20), line 45.
FloatRaises(s) == s \notin {"", "20"}

\* The loop tried each attempt but the first.
AttemptsRetriesOnly(retries) == retries

\* for attempt in range(0, retries + 1)
Attempts(retries) == retries + 1

RECURSIVE PostLoop(_, _, _)
\* The loop of lines 61-71 on the outcomes the POSTs will have, from attempt
\* number attempt on: the outcomes consumed (one per POST sent).
PostLoop(outs, attempt, last) ==
  IF attempt > last THEN <<>>
  ELSE IF outs[attempt] = "2xx" THEN <<outs[attempt]>>
       ELSE <<outs[attempt]>> \o PostLoop(outs, attempt + 1, last)

\* emit_zai_event(event_type, payload) under an environment e and the
\* outcomes outs of the POSTs: how the call ends and the POSTs it sent.
emit_zai_event(e, outs) ==
  IF ~e.enabled \/ ~e.url \/ ~e.secret
    THEN [state |-> "returned", env |-> e, posts |-> <<>>,
          ret |-> [ok |-> FALSE, skipped |-> TRUE]]
  ELSE IF FloatRaises(e.timeout_s) \/ IntRaises(e.retries)
    THEN [state |-> "raised", env |-> e, posts |-> <<>>,
          ret |-> [ok |-> FALSE, skipped |-> FALSE]]
  ELSE LET sent == PostLoop(outs, 1, Attempts(IntOf(e.retries)))
       IN  [state |-> "returned", env |-> e, posts |-> sent,
            ret |-> [ok |-> sent # <<>> /\ sent[Len(sent)] = "2xx",
                     skipped |-> FALSE]]

HookEnvs ==
  [enabled : BOOLEAN, url : BOOLEAN, secret : BOOLEAN,
   timeout_s : TimeoutEnv, retries : RetriesEnv]

\* One call, from a job or from anywhere else.
EmitZaiEvent ==
  /\ hook = NoHook
  /\ \E e \in HookEnvs, outs \in [1..(MaxRetries + 1) -> PostOutcomes] :
       hook' = emit_zai_event(e, outs)
  /\ UNCHANGED <<header, sheet, glide, meta, emitted, out, sheet3, glide3, out3, aux,
                 top, sup, sched, more>>

InitWebhook ==
  /\ Idle02 /\ Idle03
  /\ row1 = NoRow1 /\ dig = NoDig /\ fetch = NoFetch
  /\ ExtIdle

NextWebhook == EmitZaiEvent
SpecWebhook == InitWebhook /\ [][NextWebhook]_vars

\* ------------------------------------------------------------------------
\* The process of a job: run() / mirror() under the code of __main__
\* ------------------------------------------------------------------------
JobNames == {"01", "02", "03", "04"}

\* Where an exception can leave run() / mirror().  In jobs/02 the summary row
\* is appended before set_meta_map and emit_zai_event are called.
RunSteps(job) ==
  {"sheets_service", "fetch", "sheet_write", "glide_write", "log_summary"}
    \cup (IF job = "02" THEN {"set_meta_map", "emit"} ELSE {})

\* How run() / mirror() can end: by returning (ok; in jobs/02 also the
\* hash-match return and the dry return), by an Exception, by SystemExit
\* (jobs/02 line 713, jobs/03 line 347, jobs/04 lines 402 and 432).
RunEnds(job) ==
  {"ok", "exception"}
    \cup (IF job = "02" THEN {"skip", "dry"} ELSE {})
    \cup (IF job # "01" THEN {"systemexit"} ELSE {})

\* What can raise inside the handler's own try block.
HandlerFaults == {"none", "sheets_service", "ensure_log_tabs", "log_summary"}

\* __main__ of jobs/01, 03, 04 wraps run() in try/except Exception;
\* __main__ of jobs/02 calls mirror() bare.
has_handler(job) == job # "02"

\* The summary rows run() / mirror() itself appended before it ended.
RowsOfRun(job, log_enabled, run_end, step) ==
  IF ~log_enabled THEN <<>>
  ELSE CASE run_end = "ok" -> <<"ok">>
         [] run_end = "skip" -> <<"skipped">>
         [] run_end = "exception" /\ step \in {"set_meta_map", "emit"} -> <<"ok">>
         [] OTHER -> <<>>

\* The row of the handler: except Exception only, the row appended unless
\* something in the inner try raised (swallowed by "except Exception: pass").
RowsOfHandler(job, log_enabled, run_end, fault) ==
  IF has_handler(job) /\ run_end = "exception" /\ log_enabled /\ fault = "none"
    THEN <<"error">> ELSE <<>>

JobProcess(job, log_enabled, run_end, step, fault) ==
  [state |-> "exited", job |-> job, log_enabled |-> log_enabled,
   run_end |-> run_end, step |-> step, fault |-> fault,
   rows |-> RowsOfRun(job, log_enabled, run_end, step)
              \o RowsOfHandler(job, log_enabled, run_end, fault),
   \* the bare raise re-raises the exception of run(); SystemExit with a
   \* message and an uncaught exception both end the process with status 1
   surfaced |-> IF run_end \in {"exception", "systemexit"} THEN "run error" ELSE "none",
   exit |-> IF run_end \in {"exception", "systemexit"} THEN 1 ELSE 0]

\* A return has no failing step, SystemExit is raised before the fetch is
\* used, and the handler's try block runs only where there is a handler and
\* an Exception reached it.
ValidEnd(job, run_end, step, fault) ==
  /\ run_end \notin {"exception", "systemexit"} => step = "log_summary"
  /\ run_end = "systemexit" => step = "fetch"
  /\ (run_end # "exception" \/ ~has_handler(job)) => fault = "none"

Process01 ==
  /\ top = NoTop
  /\ \E log_enabled \in BOOLEAN, run_end \in RunEnds("01"), step \in RunSteps("01"),
        fault \in HandlerFaults :
       /\ ValidEnd("01", run_end, step, fault)
       /\ top' = JobProcess("01", log_enabled, run_end, step, fault)
  /\ UNCHANGED <<header, sheet, glide, meta, emitted, out, sheet3, glide3, out3, aux,
                 hook, sup, sched, more>>

Process02 ==
  /\ top = NoTop
  /\ \E log_enabled \in BOOLEAN, run_end \in RunEnds("02"), step \in RunSteps("02"),
        fault \in HandlerFaults :
       /\ ValidEnd("02", run_end, step, fault)
       /\ top' = JobProcess("02", log_enabled, run_end, step, fault)
  /\ UNCHANGED <<header, sheet, glide, meta, emitted, out, sheet3, glide3, out3, aux,
                 hook, sup, sched, more>>

Process03 ==
  /\ top = NoTop
  /\ \E log_enabled \in BOOLEAN, run_end \in RunEnds("03"), step \in RunSteps("03"),
        fault \in HandlerFaults :
       /\ ValidEnd("03", run_end, step, fault)
       /\ top' = JobProcess("03", log_enabled, run_end, step, fault)
  /\ UNCHANGED <<header, sheet, glide, meta, emitted, out, sheet3, glide3, out3, aux,
                 hook, sup, sched, more>>

Process04 ==
  /\ top = NoTop
  /\ \E log_enabled \in BOOLEAN, run_end \in RunEnds("04"), step \in RunSteps("04"),
        fault \in HandlerFaults :
       /\ ValidEnd("04", run_end, step, fault)
       /\ top' = JobProcess("04", log_enabled, run_end, step, fault)
  /\ UNCHANGED <<header, sheet, glide, meta, emitted, out, sheet3, glide3, out3, aux,
                 hook, sup, sched, more>>

InitTop ==
  /\ Idle02 /\ Idle03
  /\ row1 = NoRow1 /\ dig = NoDig /\ fetch = NoFetch
  /\ ExtIdle

NextTop == Process01 \/ Process02 \/ Process03 \/ Process04
SpecTop == InitTop /\ [][NextTop]_vars

\* ------------------------------------------------------------------------
\* jobs/04: run() of the suppliers sync (sheet -> Glide)
\* ------------------------------------------------------------------------
MaxSheetRows4 == 2
MaxGlideRows4 == 1

\* SUP_SHEET_KEY_HEADER = "Supplier ID", SUP_GLIDE_COLUMNS_JSON maps it to
\* the Glide column "sid" and "Name" to "name"; the tab's header row is
\* complete: Supplier ID | Row ID | Name.
MAPPING4 == <<<<"Supplier ID", "sid">>, <<"Name", "name">>>>
Header4 == <<"Supplier ID", "Row ID", "Name">>
idx4(h) == cur_index(Header4, h)

SupplierIds == {"", "s1", " s1", "S1", "S2"}
NameVals == {"", " ", "A", "B"}

\* str.upper() on the strings of the model.
Upper(s) == IF s = "s1" THEN "S1" ELSE s

\* norm_key(s) = str(s).strip().upper()
norm_key(s) == Upper(Strip(s))

SheetRows4 == {<<k, "", n>> : k \in SupplierIds, n \in NameVals}

\* A Glide row: its $rowID (a number here) and the two mapped columns.
GlideRow4(id, k, n) == [rowID |-> id, sid |-> k, name |-> n]

\* glide_by_supplier: the first fetched row per non-empty normalised id;
\* 0 stands for "no such row" (None).
FirstGlide4(glide_rows, sid) ==
  IF \E j \in 1..Len(glide_rows) : norm_key(glide_rows[j].sid) = sid
    THEN CHOOSE j \in 1..Len(glide_rows) :
           /\ norm_key(glide_rows[j].sid) = sid
           /\ \A m \in 1..(j - 1) : norm_key(glide_rows[m].sid) # sid
    ELSE 0

\* The guard were absent: an empty sheet value is written like any other.
never_skip(skip_empty, sv, gv) == FALSE

\* Line 509: an empty sheet value is not compared when the Glide value is
\* not empty.
skip_overwrite(skip_empty, sv, gv) ==
  skip_empty /\ Strip(sv) = "" /\ Strip(gv) # ""

\* The mutation run() queues for sheet row r against the fetched rows: an
\* add-row with every mapped column, a set-columns with the mapped columns
\* (the key excepted) that differ, or nothing.
Mutation4(r, glide_rows, skip_empty) ==
  LET sid == norm_key(r[idx4("Supplier ID")])
      j == FirstGlide4(glide_rows, sid)
  IN  IF sid = "" THEN <<>>
      ELSE IF j = 0
        THEN <<[kind |-> "add-row-to-table", rowID |-> 0,
                columnValues |-> [sid |-> r[idx4("Supplier ID")],
                                  name |-> r[idx4("Name")]]]>>
      ELSE LET sv == r[idx4("Name")]
               gv == glide_rows[j].name
           IN  IF ~skip_overwrite(skip_empty, sv, gv) /\ sv # gv
                    /\ glide_rows[j].rowID # 0
                 THEN <<[kind |-> "set-columns-in-row", rowID |-> glide_rows[j].rowID,
                         columnValues |-> [name |-> sv]]>>
                 ELSE <<>>

RECURSIVE Mutations4(_, _, _)
\* The loop of lines 462-526 over the sheet rows, in row order.
Mutations4(rows, glide_rows, skip_empty) ==
  IF rows = <<>> THEN <<>>
  ELSE Mutation4(Head(rows), glide_rows, skip_empty)
         \o Mutations4(Tail(rows), glide_rows, skip_empty)

RECURSIVE glide_mutate(_, _)
\* mutateTables: the mutations applied to the table in order; an added row
\* gets a fresh $rowID.
glide_mutate(table, mutations) ==
  IF mutations = <<>> THEN table
  ELSE LET m == Head(mutations)
       IN  glide_mutate(
             IF m.kind = "add-row-to-table"
               THEN Append(table, GlideRow4(Len(table) + 1, m.columnValues.sid,
                                            m.columnValues.name))
               ELSE [i \in 1..Len(table) |->
                       IF table[i].rowID = m.rowID
                         THEN [table[i] EXCEPT !.name = m.columnValues.name]
                         ELSE table[i]],
             Tail(mutations))

GlideTables4 ==
  {[i \in 1..Len(q) |-> GlideRow4(i, q[i][1], q[i][2])] :
     q \in SeqsUpTo((SupplierIds \ {""}) \X NameVals, MaxGlideRows4)}

\* One run of run(): fetch, plan, flush, log.  sup.runs counts the completed
\* runs up to 2.
Run04 ==
  /\ sup.state = "ready"
  /\ \E mutations \in {Mutations4(sup.sheet, sup.glide, sup.skip_empty)} :
       sup' = [sup EXCEPT !.glide = glide_mutate(sup.glide, mutations),
                          !.fetched = sup.glide,
                          !.mutations = mutations,
                          !.runs = IF sup.runs < 2 THEN sup.runs + 1 ELSE 2]
  /\ UNCHANGED <<header, sheet, glide, meta, emitted, out, sheet3, glide3, out3, aux,
                 hook, top, sched, more>>

Init04 ==
  /\ Idle02 /\ Idle03
  /\ row1 = NoRow1 /\ dig = NoDig /\ fetch = NoFetch
  /\ hook = NoHook /\ top = NoTop /\ sched = NoSched /\ MoreIdle
  /\ sup \in [state : {"ready"}, skip_empty : BOOLEAN,
              sheet : SeqsUpTo(SheetRows4, MaxSheetRows4),
              glide : GlideTables4, fetched : {<<>>}, mutations : {<<>>},
              runs : {0}]

Next04 == Run04
Spec04 == Init04 /\ [][Next04]_vars

\* ------------------------------------------------------------------------
\* run_all.main
\* ------------------------------------------------------------------------
JOBS ==
  <<"jobs/01_dashboard_updates_append_only.py", "jobs/02_project_glide_to_sheet.py",
    "jobs/03_ccp_two_way.py", "jobs/04_suppliers_sheet_to_glide.py">>

\* The return codes of a child process: 0, 1 (uncaught exception, SystemExit
\* with a message), 2 (the interpreter could not open the file).
ReturnCodes == {0, 1, 2}

\* The status were the number of failed jobs.
ExitStatusCount(failed) == failed

\* if failed: sys.exit(1); falling off main() ends the process with 0.
ExitStatus(failed) == IF failed # 0 THEN 1 ELSE 0

\* subprocess.run starts the child of the next job of the list ...
StartJob ==
  /\ sched.state = "looping"
  /\ Len(sched.started) < Len(JOBS)
  /\ sched' = [sched EXCEPT !.state = "waiting",
                            !.started = Append(@, JOBS[Len(@) + 1])]
  /\ UNCHANGED <<header, sheet, glide, meta, emitted, out, sheet3, glide3, out3, aux,
                 hook, top, sup, more>>

\* ... and returns when the child has exited; a non-zero code is counted.
JobExit ==
  /\ sched.state = "waiting"
  /\ \E code \in ReturnCodes :
       sched' = [sched EXCEPT !.state = "looping",
                              !.codes = Append(@, code),
                              !.failed = IF code # 0 THEN @ + 1 ELSE @]
  /\ UNCHANGED <<header, sheet, glide, meta, emitted, out, sheet3, glide3, out3, aux,
                 hook, top, sup, more>>

\* After the loop.
MainExit ==
  /\ sched.state = "looping"
  /\ Len(sched.started) = Len(JOBS)
  /\ sched' = [sched EXCEPT !.state = "exited", !.exit = ExitStatus(sched.failed)]
  /\ UNCHANGED <<header, sheet, glide, meta, emitted, out, sheet3, glide3, out3, aux,
                 hook, top, sup, more>>

InitSched ==
  /\ Idle02 /\ Idle03
  /\ row1 = NoRow1 /\ dig = NoDig /\ fetch = NoFetch
  /\ hook = NoHook /\ top = NoTop /\ sup = NoSup /\ MoreIdle
  /\ sched = [state |-> "looping", started |-> <<>>, codes |-> <<>>, failed |-> 0,
              exit |-> 0]

NextSched == StartJob \/ JobExit \/ MainExit
SpecSched == InitSched /\ [][NextSched]_vars

\* ------------------------------------------------------------------------
\* jobs/02 mirror(): the calls of one run, in the order of the code
\* ------------------------------------------------------------------------
\* What a run finds: whether Glide returned no row, the arguments, whether the
\* digests match, the write mode, whether the tab has body rows, which lists
\* of the plan are non-empty, whether g_order is non-empty, and the log
\* switches.
RunFinds ==
  [glide_empty : BOOLEAN, dry : BOOLEAN, hash_match : BOOLEAN,
   mode : WriteModes, rows_before : BOOLEAN, header_missing : BOOLEAN,
   deletes : BOOLEAN,
   updates : BOOLEAN, appends : BOOLEAN, LOG_ENABLED : BOOLEAN,
   LOG_DETAILS : BOOLEAN]

\* A list of row numbers, of rows or of cells is non-empty only when the
\* tab and Glide allow it.
Findable(c) ==
  /\ c.glide_empty => ~c.hash_match /\ ~c.deletes /\ ~c.updates /\ ~c.appends
  /\ (c.deletes \/ c.updates) => c.rows_before
  /\ c.hash_match => ~c.deletes /\ ~c.updates /\ ~c.appends

Call(cond, name) == IF cond THEN <<name>> ELSE <<>>

\* lines 490-518: up to read_body
HeadCalls(c) ==
  <<"ensure_sheet_exists">>
  \o Call(c.LOG_ENABLED, "ensure_log_headers")
  \o <<"glide_fetch_all", "get_header">>
  \o Call(c.header_missing, "ensure_headers:set_header_row_values")
  \o <<"get_meta_map", "read_body">>

\* lines 690-713
WriteCalls(c) ==
  IF c.mode = "delta"
    THEN Call(c.updates, "batch_update_cells")
         \o Call(c.deletes, "delete_rows_by_numbers")
         \o Call(c.appends, "append_rows")
    ELSE <<"values.clear", "set_header_row_values">>
         \o Call(~c.glide_empty, "values.update")

\* The tail with the meta store written before the logs.
TailCallsMetaFirst(c) ==
  <<"set_meta_map">>
  \o Call(c.LOG_ENABLED /\ c.LOG_DETAILS /\ (c.deletes \/ c.updates \/ c.appends),
          "log_details")
  \o Call(c.LOG_ENABLED, "log_run_summary")

\* lines 716-733: log_details, log_run_summary, set_meta_map
TailCalls(c) ==
  Call(c.LOG_ENABLED /\ c.LOG_DETAILS /\ (c.deletes \/ c.updates \/ c.appends),
       "log_details")
  \o Call(c.LOG_ENABLED, "log_run_summary")
  \o <<"set_meta_map">>

\* The calls of a run in which no call raises, and how the run ends.  The
\* diff raises NameError at its first differing cell or first insert (lines
\* 643, 663); SystemExit on a write mode that is neither delta nor full
\* (line 713).
mirror_calls(c) ==
  IF c.glide_empty
    THEN IF c.dry
           THEN [calls |-> HeadCalls(c), result |-> "dry"]
           ELSE [calls |-> HeadCalls(c)
                           \o Call(c.rows_before, "delete_rows_by_numbers")
                           \o Call(c.LOG_ENABLED, "log_run_summary")
                           \o <<"set_meta_map">>,
                 result |-> "ok"]
  ELSE IF c.hash_match
    THEN [calls |-> HeadCalls(c) \o Call(c.LOG_ENABLED, "log_run_summary"),
          result |-> "skipped"]
  ELSE IF (c.updates \/ c.appends) /\ NameError("status_idx")
    THEN [calls |-> HeadCalls(c), result |-> "error"]
  ELSE IF c.dry
    THEN [calls |-> HeadCalls(c), result |-> "dry"]
  ELSE IF c.mode \notin {"delta", "full"}
    THEN [calls |-> HeadCalls(c), result |-> "error"]
  ELSE [calls |-> HeadCalls(c) \o WriteCalls(c) \o TailCalls(c), result |-> "ok"]

\* One run.  raises = 0: no call raises; raises = k: the k-th call of the
\* run raises and has no effect, so the run made the calls before it.
MirrorRun ==
  /\ calls = NoCalls
  /\ \E c \in RunFinds :
       /\ Findable(c)
       /\ \E full \in {mirror_calls(c)} :
          \E raises \in 0..Len(full.calls) :
            calls' = [state |-> "done", finds |-> c,
                      calls |-> IF raises = 0 THEN full.calls
                                ELSE SubSeq(full.calls, 1, raises - 1),
                      raised |-> raises # 0,
                      result |-> IF raises = 0 THEN full.result ELSE "error"]
  /\ UNCHANGED <<header, sheet, glide, meta, emitted, out, sheet3, glide3, out3, aux,
                 hook, top, sup, sched, exec, clip, dash>>

InitCalls ==
  /\ Idle02 /\ Idle03
  /\ row1 = NoRow1 /\ dig = NoDig /\ fetch = NoFetch
  /\ ExtIdle

NextCalls == MirrorRun
SpecCalls == InitCalls /\ [][NextCalls]_vars

\* ------------------------------------------------------------------------
\* jobs/04 api_execute(req, what, max_attempts = 6)
\* ------------------------------------------------------------------------
\* Every caller leaves max_attempts at its default.
max_attempts == 6

\* What one req.execute(num_retries=3) ends in: a result, or an exception;
\* status is the HTTP status of an HttpError, 0 otherwise.
Ok == [exc |-> "none", status |-> 0]
Exc(name) == [exc |-> name, status |-> 0]
HttpErr(status) == [exc |-> "HttpError", status |-> status]
ExecOutcomes ==
  {Ok, Exc("BrokenPipeError"), Exc("socket.timeout"), Exc("HttpLib2Error"),
   Exc("ValueError"), HttpErr(429), HttpErr(503), HttpErr(404)}

\* Every HttpError taken for a transient one.
RetriedAnyStatus(o) ==
  \/ o.exc \in {"BrokenPipeError", "ConnectionResetError", "ssl.SSLError",
                "socket.timeout", "TimeoutError", "HttpLib2Error"}
  \/ o.exc = "HttpError"

\* The except clauses that set last_err and fall through to the sleep
\* (lines 135-142).
Retried(o) ==
  \/ o.exc \in {"BrokenPipeError", "ConnectionResetError", "ssl.SSLError",
                "socket.timeout", "TimeoutError", "HttpLib2Error"}
  \/ o.exc = "HttpError" /\ o.status \in {429, 500, 502, 503, 504}

\* for attempt in range(1, max_attempts + 1): ... raise last_err
RECURSIVE ExecLoop(_, _, _)
ExecLoop(outs, attempt, last_err) ==
  IF attempt > max_attempts
    THEN [state |-> "raised", executed |-> attempt - 1, err |-> last_err, outs |-> outs]
  ELSE IF outs[attempt] = Ok
    THEN [state |-> "returned", executed |-> attempt, err |-> Ok, outs |-> outs]
  ELSE IF Retried(outs[attempt])
    THEN ExecLoop(outs, attempt + 1, outs[attempt])
  ELSE [state |-> "raised", executed |-> attempt, err |-> outs[attempt], outs |-> outs]

api_execute(outs) == ExecLoop(outs, 1, Ok)

\* One call; outs[i] is what the i-th execute would end in.
ApiExecute ==
  /\ exec = NoExec
  /\ \E outs \in [1..max_attempts -> ExecOutcomes] : exec' = api_execute(outs)
  /\ UNCHANGED <<header, sheet, glide, meta, emitted, out, sheet3, glide3, out3, aux,
                 hook, top, sup, sched, calls, clip, dash>>

InitExec ==
  /\ Idle02 /\ Idle03
  /\ row1 = NoRow1 /\ dig = NoDig /\ fetch = NoFetch
  /\ ExtIdle

NextExec == ApiExecute
SpecExec == InitExec /\ [][NextExec]_vars

\* ------------------------------------------------------------------------
\* jobs/03 _clip(v, n = LOG_VALUE_MAX_CHARS)
\* ------------------------------------------------------------------------
MaxClipChars == 13   \* the largest LOG_VALUE_MAX_CHARS of the model
MaxValueLen == 14    \* the longest value of the model

\* Texts are sequences of characters.  PyNone is the value None.
PyNone == <<"None", "Type">>
TextOf(ch, n) == [i \in 1..n |-> ch]
ClipValues == {TextOf(ch, n) : ch \in {"a", "."}, n \in 0..MaxValueLen} \cup {PyNone}

\* str(k) of a natural number
RECURSIVE DecimalOf(_)
DecimalOf(k) ==
  LET d == <<"0", "1", "2", "3", "4", "5", "6", "7", "8", "9">>[(k % 10) + 1]
  IN  IF k < 10 THEN <<d>> ELSE Append(DecimalOf(k \div 10), d)

\* str(v)
StrOf(v) == IF v = PyNone THEN <<"N", "o", "n", "e">> ELSE v

\* f"...({len(s)}c)"
ClipMarker(len) == <<".", ".", ".", "(">> \o DecimalOf(len) \o <<"c", ")">>

Max0(k) == IF k > 0 THEN k ELSE 0

\* s[:k]
Prefix(s, k) == SubSeq(s, 1, IF k < Len(s) THEN k ELSE Len(s))

\* lines 179-185
clip_value(v, n) ==
  IF v = PyNone THEN <<>>
  ELSE LET s == StrOf(v) IN
       IF Len(s) <= n THEN s
       ELSE Prefix(s, Max0(n - 12)) \o ClipMarker(Len(s))

\* One call with LOG_VALUE_MAX_CHARS = n.
Clip ==
  /\ clip = NoClip
  /\ \E v \in ClipValues, n \in 0..MaxClipChars :
       clip' = [state |-> "done", v |-> v, n |-> n, out |-> clip_value(v, n)]
  /\ UNCHANGED <<header, sheet, glide, meta, emitted, out, sheet3, glide3, out3, aux,
                 hook, top, sup, sched, calls, exec, dash>>

InitClip ==
  /\ Idle02 /\ Idle03
  /\ row1 = NoRow1 /\ dig = NoDig /\ fetch = NoFetch
  /\ ExtIdle

NextClip == Clip
SpecClip == InitClip /\ [][NextClip]_vars

\* ------------------------------------------------------------------------
\* jobs/01 run(): configuration of the modelled deployment
\*   DASH_SHEET_SYNCKEY_HEADER = "Dashboard Update ID",
\*   DASH_GLIDE_SYNCKEY_COL = "key",
\*   DASH_GLIDE_COLUMNS_JSON = {"Dashboard Update ID":"key","Text":"txt"};
\*   row 1 of the tab is Header1, so ensure_sheet_headers writes nothing.
\* ------------------------------------------------------------------------
MaxDashSheet == 2    \* body rows of the tab before the first run
MaxDashGlide == 2    \* rows of the Glide table before the first run
MaxDashRuns == 2     \* runs in a row

SYNCKEY_HEADER == "Dashboard Update ID"
GLIDE_SYNCKEY_COL == "key"
Header1 == <<"Dashboard Update ID", "SyncKey", "Text">>
idx1(h) == CHOOSE i \in 1..Len(Header1) : Header1[i] = h

DashKeys == {"", "s1", " s1", "S2"}
DashSheetRows == {<<k, sk, "x">> : k \in DashKeys, sk \in {"", "S2"}}

\* The row ids Glide gives its rows, by position in the table.
GlideRowIds == <<"g1", "g2", "g3", "g4", "g5", "g6", "g7", "g8">>
DashGlideRow(i, k) == [rid |-> GlideRowIds[i], key |-> k, txt |-> "y"]
DashGlideTables ==
  UNION {{[i \in 1..n |-> DashGlideRow(i, ks[i])] : ks \in [1..n -> DashKeys]} :
           n \in 0..MaxDashGlide}

\* lines 74-82; the row id of a queried row is never blank
glide_key(g) == IF Strip(g.key) # "" THEN Strip(g.key) ELSE Strip(g.rid)

\* lines 84-98
sheet_key_from_row(rr) ==
  IF Strip(rr[idx1(SYNCKEY_HEADER)]) # "" THEN Strip(rr[idx1(SYNCKEY_HEADER)])
  ELSE Strip(rr[idx1("SyncKey")])

\* lines 297-305, 307-313
get_sheet_synckeys(sheet_rows) ==
  {sheet_key_from_row(sheet_rows[i]) : i \in 1..Len(sheet_rows)} \ {""}
get_glide_synckeys(glide_rows) ==
  {Strip(glide_rows[i].key) : i \in 1..Len(glide_rows)} \ {""}

\* lines 315-332
make_sheet_row_from_glide(g) ==
  [i \in 1..Len(Header1) |->
     IF Header1[i] \in {SYNCKEY_HEADER, "SyncKey"} THEN glide_key(g)
     ELSE g.txt]

\* lines 334-351
make_glide_payload_from_sheet(r) ==
  [key |-> sheet_key_from_row(r), txt |-> r[idx1("Text")]]

\* The list of line 384 with every keyed Glide row in it.
to_sheet_all(glide_rows, keys_in_sheet) ==
  SelectSeq(glide_rows, LAMBDA g : Strip(g.key) # "")

\* lines 384-388: the list is built before the loop that adds to sheet_keys
\* (lines 390-405)
to_sheet(glide_rows, keys_in_sheet) ==
  SelectSeq(glide_rows, LAMBDA g : Strip(g.key) # "" /\ Strip(g.key) \notin keys_in_sheet)

\* lines 413-421
to_glide(sheet_rows, glide_keys) ==
  SelectSeq(sheet_rows, LAMBDA r : Strip(r[idx1(SYNCKEY_HEADER)]) # ""
                                    /\ Strip(r[idx1(SYNCKEY_HEADER)]) \notin glide_keys)

\* The events sent whether or not append_rows returned.
events_regardless(append_raised, row_ids) == row_ids

\* lines 407-411: the loop of emit_zai_event follows append_rows
events_after_append(append_raised, row_ids) ==
  IF append_raised THEN <<>> ELSE row_ids

\* glide_add_row: the table gets a row with a row id of its own.
glide_add_rows(table, payloads) ==
  table \o [j \in 1..Len(payloads) |->
              [rid |-> GlideRowIds[Len(table) + j], key |-> payloads[j].key,
               txt |-> payloads[j].txt]]

\* One run().  append_raises: the values().append of line 407 raises;
\* add_raises = k > 0: the k-th glide_add_row raises, the ones before it
\* were applied.
Run01 ==
  /\ dash.state = "ready"
  /\ dash.runs < MaxDashRuns
  /\ \E append_raises \in BOOLEAN, add_raises \in 0..Len(dash.sheet) :
     LET sheet_keys1 == get_sheet_synckeys(dash.sheet)
         glide_keys == get_glide_synckeys(dash.glide)
         ts == to_sheet(dash.glide, sheet_keys1)
         sheet_appends == [j \in 1..Len(ts) |-> make_sheet_row_from_glide(ts[j])]
         row_ids == [j \in 1..Len(ts) |-> ts[j].rid]
         append_raised == append_raises /\ sheet_appends # <<>>
         tg == to_glide(dash.sheet, glide_keys)
         payloads == [j \in 1..Len(tg) |-> make_glide_payload_from_sheet(tg[j])]
         sent == IF add_raises = 0 THEN payloads
                 ELSE SubSeq(payloads, 1, add_raises - 1)
     IN  /\ add_raises <= Len(tg)
         /\ append_raises => sheet_appends # <<>>
         /\ dash' =
              IF append_raised
                THEN [dash EXCEPT !.runs = @ + 1, !.result = "error",
                                  !.raised_in = "append_rows",
                                  !.sheet_appends = <<>>, !.glide_adds = <<>>,
                                  !.events = events_after_append(TRUE, row_ids),
                                  !.sent_before = @ + Len(dash.events)]
                ELSE [dash EXCEPT !.runs = @ + 1,
                                  !.result = IF add_raises = 0 THEN "ok" ELSE "error",
                                  !.raised_in = IF add_raises = 0 THEN ""
                                                ELSE "glide_add_row",
                                  !.sheet = @ \o sheet_appends,
                                  !.glide = glide_add_rows(@, sent),
                                  !.sheet_appends = sheet_appends,
                                  !.glide_adds = sent,
                                  !.events = events_after_append(FALSE, row_ids),
                                  !.sent_before = @ + Len(dash.events)]
  /\ UNCHANGED <<header, sheet, glide, meta, emitted, out, sheet3, glide3, out3, aux,
                 hook, top, sup, sched, calls, exec, clip>>

Init01 ==
  /\ Idle02 /\ Idle03
  /\ row1 = NoRow1 /\ dig = NoDig /\ fetch = NoFetch
  /\ hook = NoHook /\ top = NoTop /\ sup = NoSup /\ sched = NoSched
  /\ calls = NoCalls /\ exec = NoExec /\ clip = NoClip
  /\ dash \in [state : {"ready"}, runs : {0}, result : {"none"}, raised_in : {""},
               sheet : SeqsUpTo(DashSheetRows, MaxDashSheet),
               glide : DashGlideTables,
               sheet_appends : {<<>>}, glide_adds : {<<>>}, events : {<<>>},
               sent_before : {0}]

Next01 == Run01
Spec01 == Init01 /\ [][Next01]_vars

Init == Init02
Next == Next02
Spec == Init /\ [][Next]_vars

\* ------------------------------------------------------------------------
\* jobs/02: vocabulary of the properties
\* ------------------------------------------------------------------------
\* The key column of the data tab.
KeyCol == cur_index(header, "Row ID")
NotesCol == cur_index(header, "Notes")

\* A step is a run of mirror() that got past the hash short-circuit with a
\* non-empty Glide table, dry = False and a valid WRITE_MODE.
DiffRun ==
  /\ out'.path = "diff"
  /\ ~out'.dry
  /\ out'.mode \in {"delta", "full"}

PlanEmpty(o) ==
  o.rows_to_append = <<>> /\ o.updated_cells = <<>> /\ o.rows_to_delete = <<>>

Count(s, x) == Cardinality({i \in 1..Len(s) : s[i] = x})

\* Sheet row i is retained: the first row carrying its non-empty key.
Retained(body, i) == FirstOccurrence(body, i, header, KeyCol)
RowKey(body, i) == KeyOf(body[i], header, KeyCol)

\* The cells of the sheet row i that differ from the Glide record of its key.
DiffersAt(body, i, ci) ==
  body[i][ci] # g_map(glide, header, RowKey(body, i))[ci]

\* C1: after a completed run of the wipe path or of the delta diff, the next
\* run (nothing having changed in between) is skipped or plans no insert, no
\* cell update and no delete.
C1_SecondRunEmpty ==
  [][(out.result = "ok" /\ (out.path = "wipe" \/ out.mode = "delta"))
       => (out'.result = "skipped" \/ PlanEmpty(out'))]_vars

\* C1 witness: a run was skipped on a sheet that still holds rows; the stored
\* digest it matched was written by an earlier completed run.
C1_Witness ==
  out.result = "skipped" /\ out.mode = "delta" /\ Len(sheet) > 0
  /\ meta.hash = compute_hash_selected_from_rows(glide)

\* C2: PROJECT_UPDATED is sent at most once per legacy id, and never by a
\* run that starts with the flag mfg_triggered:<id> stored.
C2_AtMostOnce ==
  [][\A x \in LegacyIds :
       /\ emitted'[x] <= 1
       /\ (x \in meta.flags => emitted'[x] = emitted[x])]_vars

\* C2 witness: a run was fed the "became mfg" transition of x with the flag
\* of x stored (the run left both sides as they were), and sent nothing.
C2_Witness ==
  \E x \in LegacyIds :
    /\ x \in meta.flags
    /\ out.path = "diff" /\ ~out.dry /\ out.mode = "delta"
    /\ BecameMfg(sheet, glide, header, KeyCol, x)
    /\ \E u \in 1..Len(out.updated_cells) :
         /\ out.updated_cells[u][2] = status_idx(header)
         /\ out.updated_cells[u][3] = PROJ_MFG_STATUS_VALUE
         /\ Strip(sheet[out.updated_cells[u][1] - 1][id_idx(header)]) = x
    /\ emitted[x] = 0

\* C3: every run that is fed the "became mfg" transition of x sends
\* PROJECT_UPDATED for x and stores its flag when no flag is stored, and
\* sends nothing when the flag is stored; so 3 such runs send exactly 1.
C3_ExactlyOnceOverRuns ==
  [][\A x \in LegacyIds :
       (DiffRun /\ BecameMfg(sheet, glide, header, KeyCol, x))
         => IF x \in meta.flags
              THEN emitted'[x] = emitted[x]
              ELSE emitted'[x] = emitted[x] + 1 /\ x \in meta'.flags]_vars

\* C4: a run appends, for every non-empty Glide key that no sheet row
\* carries, a row holding the Glide values of that key.
C4_MissingKeysInserted ==
  [][DiffRun =>
       \A k \in Keys :
         (InGMap(glide, k) /\ \A i \in 1..Len(sheet) : RowKey(sheet, i) # k)
           => /\ out'.result = "ok"
              /\ \E j \in 1..Len(sheet') :
                   \A ci \in {mapped_positions(header)[c] :
                                c \in 1..Len(mapped_positions(header))} :
                     sheet'[j][ci] = g_map(glide, header, k)[ci]]_vars

\* C5: a run deletes every retained sheet row whose key is not in Glide and
\* keeps every retained sheet row whose key is in Glide.
C5_StaleRowsDeleted ==
  [][DiffRun =>
       \A i \in 1..Len(sheet) :
         Retained(sheet, i) =>
           IF InGMap(glide, RowKey(sheet, i))
             THEN \E j \in 1..Len(sheet') : RowKey(sheet', j) = RowKey(sheet, i)
             ELSE \A j \in 1..Len(sheet') : RowKey(sheet', j) # RowKey(sheet, i)]_vars

\* C6: for every key on both sides a run writes exactly the mapped cells
\* that differ, cell by cell, and the cells of unmapped columns of a kept row
\* are the same after the run, in delta and in full mode.
C6_CellLevelUpdates ==
  [][DiffRun =>
       \A i \in 1..Len(sheet) :
         (Retained(sheet, i) /\ InGMap(glide, RowKey(sheet, i)))
           => /\ out'.result = "ok"
              /\ \A ci \in 1..Len(header) :
                   (Count(out'.updated_cells,
                          <<i + 1, ci, g_map(glide, header, RowKey(sheet, i))[ci]>>) = 1)
                     <=> (InSeq(header[ci], selected_headers) /\ DiffersAt(sheet, i, ci))
              /\ \E j \in 1..Len(sheet') :
                   /\ RowKey(sheet', j) = RowKey(sheet, i)
                   /\ sheet'[j][NotesCol] = sheet[i][NotesCol]]_vars

\* C7: with Glide empty and n data rows in the sheet, a run with dry = False
\* deletes rows 2..n+1, ends ok, reports deleted = n and stores the sentinel
\* "EMPTY", which is not the digest of an empty row list.
C7_EmptySourceWipe ==
  [][(out'.path = "wipe" /\ ~out'.dry) =>
       /\ glide = <<>>
       /\ out'.result = "ok"
       /\ out'.rows_to_delete = RowRange(Len(sheet))
       /\ sheet' = <<>>
       /\ out'.rows_to_append = <<>> /\ out'.updated_cells = <<>>
       /\ meta'.hash = EmptyHash
       /\ meta'.flags = meta.flags
       /\ EmptyHash # compute_hash_selected_from_rows(<<>>)]_vars

\* C7 witness: a wipe of two data rows has completed.
C7_Witness ==
  /\ out.path = "wipe" /\ out.result = "ok" /\ ~out.dry
  /\ Len(out.rows_to_delete) = MaxSheetRows
  /\ sheet = <<>> /\ meta.hash = EmptyHash

\* C8: of several sheet rows with one non-empty key the first is retained
\* and is the one compared with Glide; each later one is scheduled for
\* deletion exactly once; the later ones cause no insert and no cell update.
C8_DuplicateCollapse ==
  [][out'.path = "diff" =>
       /\ \A i \in 1..Len(sheet) :
            /\ LaterOccurrence(sheet, i, header, KeyCol)
                 => /\ Count(out'.rows_to_delete, i + 1) = 1
                    /\ \A u \in 1..Len(out'.updated_cells) :
                         out'.updated_cells[u][1] # i + 1
            /\ (Retained(sheet, i) /\ InGMap(glide, RowKey(sheet, i)))
                 => /\ Count(out'.rows_to_delete, i + 1) = 0
                    /\ \A a \in 1..Len(out'.rows_to_append) :
                         out'.rows_to_append[a][KeyCol] # RowKey(sheet, i)
       /\ \A u \in 1..Len(out'.updated_cells) :
            LET rn == out'.updated_cells[u][1]
                ci == out'.updated_cells[u][2]
            IN  /\ rn - 1 \in 1..Len(sheet)
                /\ Retained(sheet, rn - 1)
                /\ out'.updated_cells[u][3]
                     = g_map(glide, header, RowKey(sheet, rn - 1))[ci]
                /\ DiffersAt(sheet, rn - 1, ci)
       /\ out'.duplicates =
            duplicate_rows_to_delete(sheet, header, KeyCol)]_vars

\* C8 witness: a run found the second of two rows with one key to be a
\* duplicate, deleted it and kept the first.
C8_Witness ==
  /\ out.path = "diff" /\ out.result = "ok" /\ out.mode = "delta"
  /\ out.duplicates = <<3>> /\ out.rows_to_delete = <<3>>
  /\ Len(sheet) = 1

\* ------------------------------------------------------------------------
\* jobs/03: vocabulary of the properties
\* ------------------------------------------------------------------------
\* The parsed updated-at of the sheet row a decision is about, and of the
\* Glide record of its key, in the state the run started from.
SheetDt(e) == parse_dt(Strip(sheet3[e.rnum - 1][idx3(SHEET_UPDATED_AT_HEADER)]))
GlideDt(e) == parse_dt(Strip(Get(GlideOf3(glide3, e.key), GLIDE_UPDATED_AT_COL)))

\* The decisions of the run just made about keys present on both sides.
BothSides3 ==
  {out3'.decisions[i] : i \in {j \in 1..Len(out3'.decisions) :
                                 out3'.decisions[j].direction # "add_glide"}}

\* The run wrote a mapped or an updated-at/by cell of sheet row rnum.
SheetFieldWritten(o, rnum) ==
  \E u \in 1..Len(o.updates_sheet) :
    o.updates_sheet[u][1] = rnum /\ o.updates_sheet[u][2] # idx3(SHEET_ROWID_HEADER)

\* The run sent a set-columns mutation for the Glide row row_id.
GlideRowWritten(o, row_id) ==
  \E c \in 1..Len(o.glide_calls) :
    o.glide_calls[c][1] = "set" /\ o.glide_calls[c][2] = row_id

\* C9: for a key on both sides whose updated-at values both parse and name
\* different instants, the run decides for the side with the later instant;
\* towards Glide it sends exactly the mapped columns that differ, towards
\* the sheet it writes no mapped cell that is already equal, and it leaves
\* the winning side's record alone.
C9_LaterTimestampWins ==
  [][\A e \in BothSides3 :
       (SheetDt(e).some /\ GlideDt(e).some /\ SheetDt(e).t # GlideDt(e).t)
         => LET g == GlideOf3(glide3, e.key)
                sr == sheet3[e.rnum - 1]
            IN  IF SheetDt(e).t > GlideDt(e).t
                  THEN /\ e.direction = "sheet_to_glide"
                       /\ ~SheetFieldWritten(out3', e.rnum)
                       /\ DiffPayload(MAPPING, sr, g) # <<>>
                            => \E c \in 1..Len(out3'.glide_calls) :
                                 out3'.glide_calls[c]
                                   = <<"set", glide_rowid(g), DiffPayload(MAPPING, sr, g)>>
                       /\ DiffPayload(MAPPING, sr, g) = <<>>
                            => ~GlideRowWritten(out3', glide_rowid(g))
                  ELSE /\ e.direction = "glide_to_sheet"
                       /\ ~GlideRowWritten(out3', glide_rowid(g))
                       /\ \A m \in 1..Len(MAPPING) :
                            (sr[idx3(MAPPING[m][1])] # Get(g, MAPPING[m][2]))
                              <=> Count(out3'.updates_sheet,
                                        <<e.rnum, idx3(MAPPING[m][1]),
                                          Get(g, MAPPING[m][2])>>) = 1]_vars

\* C10: for every key on both sides whose decision a run makes: when exactly
\* one updated-at parses the side that has it wins; when neither parses the
\* side named by CCP_CONFLICT_WINNER wins; when both parse and are equal the
\* outcome is "none" and the run writes no mapped and no updated-at/by field
\* of that key on either side.  A run that ends ok has made a decision for
\* every key that is on both sides.
C10_NonStrictDirections ==
  [][/\ \A e \in BothSides3 :
          /\ (SheetDt(e).some /\ ~GlideDt(e).some) => e.direction = "sheet_to_glide"
          /\ (GlideDt(e).some /\ ~SheetDt(e).some) => e.direction = "glide_to_sheet"
          /\ (~SheetDt(e).some /\ ~GlideDt(e).some)
               => e.direction = (IF out3'.winner = "sheet" THEN "sheet_to_glide"
                                 ELSE "glide_to_sheet")
          /\ (SheetDt(e).some /\ SheetDt(e) = GlideDt(e))
               => /\ e.direction = "none"
                  /\ ~SheetFieldWritten(out3', e.rnum)
                  /\ ~GlideRowWritten(out3', glide_rowid(GlideOf3(glide3, e.key)))
     /\ out3'.result = "ok"
          => \A k \in CcpKeys :
               (InSheet3(sheet3, k) /\ InGlide3(glide3, k))
                 => \E e \in BothSides3 : e.key = k]_vars

\* C10 witness: a run under CCP_CONFLICT_WINNER = glide has ended ok with an
\* outcome "none" for a key whose mapped field still differs between the two
\* sides, and with a Glide win for a key whose Glide updated-at does not
\* parse (so neither side's did).
C10_Witness ==
  /\ out3.result = "ok" /\ out3.winner = "glide"
  /\ \E i \in 1..Len(out3.decisions) :
       LET e == out3.decisions[i] IN
       /\ e.direction = "none"
       /\ sheet3[e.rnum - 1][idx3("Desc")] # Get(GlideOf3(glide3, e.key), "desc")
  /\ \E i \in 1..Len(out3.decisions) :
       LET e == out3.decisions[i] IN
       /\ e.direction = "glide_to_sheet"
       /\ ~parse_dt(Get(GlideOf3(glide3, e.key), GLIDE_UPDATED_AT_COL)).some

\* The body index of the sheet row that carries key k in sheet_by_id, and the
\* keys that are on both sides, in the state a run starts from.
SheetIdxOf3(k) ==
  CHOOSE i \in 1..Len(sheet3) : SheetFirst3(sheet3, i) /\ SheetKey3(sheet3[i]) = k

OnBothSides3(k) == InSheet3(sheet3, k) /\ InGlide3(glide3, k)

\* The run just made sent no mutation to Glide and planned none for the sheet.
NoMutation3(o) ==
  o.sheet_appends = <<>> /\ o.updates_sheet = <<>> /\ o.glide_calls = <<>>

\* C11: no decision of a run raises, whatever the two updated-at values are,
\* and an absent or unparsable value parses to "no timestamp".
C11_DecisionNeverRaises ==
  [][/\ \A i \in 1..Len(out3'.decisions) : out3'.decisions[i].direction # "raise"
     /\ out3'.result # "error"
     /\ ~parse_dt("").some /\ ~parse_dt("n/a").some]_vars

\* C12: for every key on both sides whose Glide row has a row id that the
\* sheet's pointer cell does not hold, the run schedules the update of the
\* pointer cell to that row id.
C12_PointerRepaired ==
  [][\A k \in CcpKeys :
       LET g == GlideOf3(glide3, k)
           i == SheetIdxOf3(k)
       IN  (OnBothSides3(k) /\ glide_rowid(g) # ""
              /\ Strip(sheet3[i][idx3(SHEET_ROWID_HEADER)]) # glide_rowid(g))
             => Count(out3'.updates_sheet,
                      <<i + 1, idx3(SHEET_ROWID_HEADER), glide_rowid(g)>>) = 1]_vars

\* C13: a run appends exactly one sheet row for every key that only Glide
\* has, built from the Glide row; sends exactly one add-row call for every
\* key that only the sheet has, carrying the mapped fields of its row; and
\* appends and adds nothing for a key that is on both sides.
C13_CreateOnMissingSide ==
  [][\A k \in CcpKeys :
       LET adds == {c \in 1..Len(out3'.glide_calls) :
                      /\ out3'.glide_calls[c][1] = "add"
                      /\ out3'.glide_calls[c][3][1] = <<"ccp", k>>}
           rows == {j \in 1..Len(sheet3') : SheetKey3(sheet3'[j]) = k}
       IN  /\ (InGlide3(glide3, k) /\ ~InSheet3(sheet3, k))
                => /\ Cardinality(rows) = 1
                   /\ \A j \in rows : sheet3'[j] = sheet_row_from_glide(GlideOf3(glide3, k))
                   /\ adds = {}
           /\ (InSheet3(sheet3, k) /\ ~InGlide3(glide3, k))
                => /\ Cardinality(adds) = 1
                   /\ \A c \in adds :
                        out3'.glide_calls[c][3] = payload_from_sheet(sheet3[SheetIdxOf3(k)])
                   /\ Cardinality(rows)
                        = Cardinality({j \in 1..Len(sheet3) : SheetKey3(sheet3[j]) = k})
           /\ OnBothSides3(k)
                => /\ adds = {}
                   /\ Cardinality(rows)
                        = Cardinality({j \in 1..Len(sheet3) : SheetKey3(sheet3[j]) = k})]_vars

\* C14: the run that follows a completed run, under the same configuration
\* and nothing else having touched either side, appends nothing, updates no
\* cell and sends nothing to Glide.
C14_SecondRunNoMutation ==
  [][(out3.result = "ok" /\ out3'.winner = out3.winner)
       => (out3'.result = "ok" /\ NoMutation3(out3'))]_vars

\* ------------------------------------------------------------------------
\* Header step: vocabulary of the properties
\* ------------------------------------------------------------------------
\* The headers the job of a header step declares.
Declared(job) ==
  CASE job = "02" -> selected_headers
    [] job = "03" -> required_headers3
    [] job = "04" -> required_headers4
    [] OTHER -> <<>>

\* C15: a header step leaves every non-blank cell of the prior row 1 in its
\* column, and every declared header the prior row lacked is, after the
\* step, in a column to the right of the prior row's cells.
C15_HeaderEvolution ==
  [][/\ \A i \in 1..Len(row1.cells) :
          row1.cells[i] # ""
            => (i <= Len(row1'.cells) /\ row1'.cells[i] = row1.cells[i])
     /\ \A n \in 1..Len(Declared(row1'.job)) :
          LET h == Declared(row1'.job)[n] IN
          ~InSeq(h, row1.cells)
            => \E j \in (Len(row1.cells) + 1)..Len(row1'.cells) :
                 row1'.cells[j] = h]_vars

C17_OrderInsensitive ==
  dig.op = "order" => dig.before = dig.after

\* C18: with Glide not empty a run of mirror() takes the hash-match return
\* exactly when force is False, the stored digest equals the digest of the
\* Glide rows and the digest of the sheet equals it too; every other run
\* goes through the diff.  A skipped run had the same keys on both sides and
\* every record of the sheet equal to Glide's on the mapped columns.
C18_SkipOnlyOnTripleMatch ==
  [][(out'.result # "none" /\ glide # <<>>) =>
       /\ out'.path = "skip" <=>
            /\ ~out'.force
            /\ meta.hash = compute_hash_selected_from_rows(glide)
            /\ compute_hash_selected_from_sheet(sheet, header',
                 cur_index(header', "Row ID")) = compute_hash_selected_from_rows(glide)
       /\ out'.path # "skip" => out'.path = "diff"
       /\ out'.path = "skip" =>
            /\ \A i \in 1..Len(sheet) : Retained(sheet, i) =>
                 /\ \A ci \in 1..Len(selected_headers) : ~DiffersAt(sheet, i, ci)
                 /\ \E j \in 1..Len(glide) : RowKey(sheet, i) = norm(glide[j]["$rowID"])
            /\ \A j \in 1..Len(glide) :
                 \E i \in 1..Len(sheet) : RowKey(sheet, i) = norm(glide[j]["$rowID"])]_vars

\* C18 witness: a forced run went through the diff and found nothing to
\* change.
C18_Witness ==
  /\ out.force /\ out.path = "diff" /\ out.result = "ok"
  /\ glide # <<>>
  /\ out.rows_to_delete = <<>> /\ out.updated_cells = <<>> /\ out.rows_to_append = <<>>

\* C19: a run of mirror(dry=True) changes neither the header nor the body of
\* the data sheet, appends no log row, leaves the meta store as it was and
\* emits no event, on every path.
C19_DryRunWritesNothing ==
  [][(out'.result # "none" /\ out'.dry) =>
       /\ header' = header /\ sheet' = sheet
       /\ meta' = meta /\ emitted' = emitted
       /\ ~out'.logged]_vars

\* C20: in every job the Glide fetch returns the rows of all the pages of
\* the table, concatenated in page order (every response being in the
\* expected shape).
C20_FetchFollowsNext ==
  (fetch.job # "none" /\ fetch.bad = 0) => fetch.rows = AllPages(fetch.pages)

\* C21: a call of emit_zai_event ends by returning a result, whatever the
\* environment and whatever the POSTs end in; it never raises.
C21_EmitNeverRaises ==
  hook.state # "none" => hook.state = "returned"

C23_OneSummaryRow ==
  (top.state = "exited" /\ top.log_enabled /\ top.run_end # "dry") =>
    Len(top.rows) = 1

\* C24: when an error escapes run() / mirror() the process ends with a
\* non-zero status on that error, and the top level has appended a summary
\* row with result "error" unless writing that row failed.
C24_FailureSummaryThenReraise ==
  (top.state = "exited" /\ top.run_end = "exception") =>
    /\ top.exit # 0 /\ top.surfaced = "run error"
    /\ (top.log_enabled /\ top.fault = "none" /\ top.step \notin {"set_meta_map", "emit"}) =>
         top.rows = <<"error">>

\* The add-row and the set-columns mutations of the last run of jobs/04.
Added4 == {i \in 1..Len(sup.mutations) : sup.mutations[i].kind = "add-row-to-table"}
Updated4 == {i \in 1..Len(sup.mutations) : sup.mutations[i].kind = "set-columns-in-row"}

\* C25: a run of jobs/04 that follows a completed run, nothing else having
\* touched the sheet or Glide, queues no add-row and no set-columns.
C25_SecondRunQueuesNothing ==
  [][(sup.state = "ready" /\ sup.runs >= 1) => sup'.mutations = <<>>]_vars

\* C26: with SUP_SKIP_EMPTY_OVERWRITE on, no set-columns mutation assigns an
\* empty or whitespace-only value to a column whose fetched value is not
\* empty.
C26_NoEmptyOverwrite ==
  (sup.state = "ready" /\ sup.skip_empty) =>
    \A i \in Updated4 : \A j \in 1..Len(sup.fetched) :
      sup.fetched[j].rowID = sup.mutations[i].rowID =>
        (Strip(sup.mutations[i].columnValues.name) = ""
           => Strip(sup.fetched[j].name) = "")

\* C26 witness: a run left the Glide name "A" alone although the sheet row of
\* that supplier has a blank name.
C26_Witness ==
  /\ sup.state = "ready" /\ sup.skip_empty /\ sup.runs = 1
  /\ sup.mutations = <<>>
  /\ Len(sup.fetched) = 1 /\ sup.fetched[1].name = "A"
  /\ Len(sup.sheet) = 1 /\ sup.sheet[1][3] = " "
  /\ norm_key(sup.sheet[1][1]) = norm_key(sup.fetched[1].sid)

\* The fetch received the response of the unrecognised shape: the jobs that
\* send one POST receive the response of the first page only.
BadReceived ==
  /\ fetch.bad # 0
  /\ fetch.job \in {"02", "legacy"} => fetch.bad = 1

\* C27: when a response of the Glide query is not in a recognised shape the
\* fetch returns no row at all, also when the response is that of a later
\* page.
C27_UnrecognizedShapeZeroRows ==
  (fetch.job # "none" /\ BadReceived) => fetch.rows = <<>>

\* C28: run_all starts the jobs in the listed order, one at a time and each
\* after the previous one has exited, runs all four whatever the earlier
\* ones returned, and exits with 1 exactly when some job returned non-zero.
C28_SequentialAllJobs ==
  sched.state # "none" =>
    /\ \A i \in 1..Len(sched.started) : sched.started[i] = JOBS[i]
    /\ Len(sched.started) - Len(sched.codes) =
         (IF sched.state = "waiting" THEN 1 ELSE 0)
    /\ sched.state = "exited" =>
         /\ Len(sched.codes) = Len(JOBS)
         /\ sched.exit \in {0, 1}
         /\ sched.exit = 1 <=> \E i \in 1..Len(sched.codes) : sched.codes[i] # 0

\* C28 witness: the first job failed, the three others were run and
\* succeeded, and run_all exited with 1.
C28_Witness ==
  /\ sched.state = "exited"
  /\ sched.codes = <<1, 0, 0, 0>>
  /\ sched.exit = 1

\* The legacy ids the diff of a run started now would decide to fire for
\* (triggered_projects), whether or not the run fails later.
DecidedToFire ==
  FiredSet(Plan(sheet, glide, header, KeyCol, meta.flags).triggered)

\* A run of the diff that is not dry and was fed the transition of x with no
\* flag of x stored.
FedTransition(x) ==
  /\ DiffRun
  /\ BecameMfg(sheet, glide, header, KeyCol, x)
  /\ x \notin meta.flags

\* C30: a run that is fed the transition of X and fails before the meta
\* store is written emits nothing and leaves the transition to be observed
\* again; the run that follows it, Glide unchanged, decides to fire for X.
C30_FailedFireReobserved ==
  [][\A x \in LegacyIds :
       /\ (FedTransition(x) /\ out'.result = "error") =>
            /\ emitted' = emitted /\ meta' = meta
            /\ BecameMfg(sheet', glide', header', KeyCol', x)
       /\ (FedTransition(x) /\ out.result = "error" /\ out.path = "diff" /\ ~out.dry) =>
            x \in DecidedToFire]_vars

\* The calls that write body rows of the data tab, and the log appends.
SheetWrites ==
  {"batch_update_cells", "delete_rows_by_numbers", "append_rows", "values.clear",
   "set_header_row_values", "values.update"}
LogAppends == {"log_details", "log_run_summary"}

\* The positions of a call in the calls of the run.
CallsAt(name) == {i \in 1..Len(calls.calls) : calls.calls[i] = name}

CellAfter(updates, rn, ci, old) ==
  LET hits == {u \in 1..Len(updates) : updates[u][1] = rn /\ updates[u][2] = ci}
  IN  IF hits = {} THEN old
      ELSE updates[CHOOSE u \in hits : \A v \in hits : v <= u][3]

\* C32: in a completed delta run the planned row numbers are pairwise
\* distinct and are issued in strictly descending order; the rows left are
\* the rows that stood outside the planned positions when the sheet was
\* read, in their order, each with the cell updates computed for its row
\* number, and the appended rows follow them.
C32_DeletesAtPlannedPositions ==
  [][(out'.result = "ok" /\ out'.path = "diff" /\ out'.mode = "delta") =>
       LET del == out'.rows_to_delete
           D == {del[i] : i \in 1..Len(del)}
           issued == SortDesc(del)
           left == Len(sheet) - Len(del)
       IN  /\ Cardinality(D) = Len(del)
           /\ D \subseteq 2..(Len(sheet) + 1)
           /\ \A i \in 1..(Len(issued) - 1) : issued[i] > issued[i + 1]
           /\ Len(sheet') = left + Len(out'.rows_to_append)
           /\ \A i \in 1..Len(sheet) :
                (i + 1) \notin D =>
                  LET j == i - Cardinality({d \in D : d < i + 1})
                  IN  \A ci \in 1..Len(sheet[i]) :
                        sheet'[j][ci] =
                          CellAfter(out'.updated_cells, i + 1, ci, sheet[i][ci])
           /\ \A a \in 1..Len(out'.rows_to_append) :
                sheet'[left + a] = out'.rows_to_append[a]]_vars

\* C32 witness: a completed delta run whose plan lists two rows to delete in
\* ascending order, so that the first request issued is for the second.
C32_Witness ==
  /\ out.result = "ok" /\ out.path = "diff" /\ out.mode = "delta"
  /\ Len(out.rows_to_delete) >= 2
  /\ out.rows_to_delete[1] < out.rows_to_delete[2]

\* The transient signals of the retry policy.
TransientSignal(o) ==
  \/ o.exc \in {"BrokenPipeError", "ConnectionResetError", "ssl.SSLError",
                "socket.timeout", "TimeoutError", "HttpLib2Error"}
  \/ o.exc = "HttpError" /\ o.status \in {429, 500, 502, 503, 504}

\* C33: api_execute executes the request at most 6 times; every attempt
\* before the last one executed ended in a transient signal; it returns
\* exactly when the last attempt executed succeeded; an outcome that is not
\* a transient signal is raised by the attempt it occurred in; after 6
\* transient failures the error of the 6th is raised.
C33_BoundedTransientRetries ==
  exec.state # "none" =>
    /\ exec.executed \in 1..6
    /\ \A i \in 1..(exec.executed - 1) : TransientSignal(exec.outs[i])
    /\ exec.state = "returned" <=> exec.outs[exec.executed] = Ok
    /\ exec.state = "raised" => exec.err = exec.outs[exec.executed]
    /\ (exec.state = "raised" /\ TransientSignal(exec.err)) => exec.executed = 6

\* C33 witness: two transient failures, then an HttpError 404 that is raised
\* by the third attempt.
C33_Witness ==
  /\ exec.state = "raised"
  /\ exec.executed = 3
  /\ exec.err = HttpErr(404)
  /\ exec.outs[1] = HttpErr(503) /\ exec.outs[2] = Exc("socket.timeout")

\* s ends with the text m
EndsWith(s, m) ==
  Len(s) >= Len(m) /\ SubSeq(s, Len(s) - Len(m) + 1, Len(s)) = m

\* C34: _clip(v, n) is str(v) when str(v) has at most n characters;
\* otherwise it has at most n characters and ends with the marker that
\* carries the length of str(v).
C34_ClipWithinMax ==
  clip.state = "done" =>
    IF Len(StrOf(clip.v)) <= clip.n
      THEN clip.out = StrOf(clip.v)
      ELSE /\ Len(clip.out) <= clip.n
           /\ EndsWith(clip.out, ClipMarker(Len(StrOf(clip.v))))

\* The sync keys of the key column of the tab and of the Glide table.
KeysOfSheet1(rows) == {Strip(rows[i][idx1(SYNCKEY_HEADER)]) : i \in 1..Len(rows)} \ {""}
KeysOfGlide1(rows) == {Strip(rows[i].key) : i \in 1..Len(rows)} \ {""}
IsPrefix(s, t) == Len(s) <= Len(t) /\ SubSeq(t, 1, Len(s)) = s
RowsAfter(s, t) == SubSeq(t, Len(s) + 1, Len(t))

\* C35: a run of jobs/01 leaves every row that was in the tab or in the
\* Glide table as it was and where it was; every row it appends to the tab
\* has a sync key that was in Glide and not in the tab, and every row it
\* adds to Glide has a sync key that was in the tab and not in Glide.
C35_AppendOnly ==
  [][dash'.runs = dash.runs + 1 =>
       /\ IsPrefix(dash.sheet, dash'.sheet)
       /\ IsPrefix(dash.glide, dash'.glide)
       /\ \A i \in (Len(dash.sheet) + 1)..Len(dash'.sheet) :
            LET k == Strip(dash'.sheet[i][idx1(SYNCKEY_HEADER)])
            IN  k \in KeysOfGlide1(dash.glide) /\ k \notin KeysOfSheet1(dash.sheet)
       /\ \A i \in (Len(dash.glide) + 1)..Len(dash'.glide) :
            LET k == Strip(dash'.glide[i].key)
            IN  k \in KeysOfSheet1(dash.sheet) /\ k \notin KeysOfGlide1(dash.glide)]_vars

\* C35 witness: a run appended a row to the tab and added a row to Glide.
C35_Witness ==
  /\ dash.state = "ready" /\ dash.result = "ok"
  /\ Len(dash.sheet_appends) >= 1 /\ Len(dash.glide_adds) >= 1
  /\ Len(dash.sheet) > Len(dash.sheet_appends)

\* C36: the events of a run are the row ids of the Glide rows the run
\* appended to the tab, one event per appended row and no row id twice;
\* none is sent when append_rows raised, none for a Glide row whose key was
\* in the tab, none for a row the run added to Glide; a run that follows a
\* run whose append returned, Glide having no new row, sends nothing.
C36_EventsOnlyForAppended ==
  [][dash'.runs = dash.runs + 1 =>
       LET ev == dash'.events
           new == RowsAfter(dash.sheet, dash'.sheet)
       IN  /\ Len(ev) = Len(new)
           /\ \A e \in 1..Len(ev) :
                /\ \E i \in 1..Len(dash.glide) :
                     /\ dash.glide[i].rid = ev[e]
                     /\ Strip(dash.glide[i].key) \notin KeysOfSheet1(dash.sheet)
                     /\ new[e][idx1(SYNCKEY_HEADER)] = Strip(dash.glide[i].key)
                /\ \A f \in 1..Len(ev) : ev[f] = ev[e] => f = e
                /\ \A i \in (Len(dash.glide) + 1)..Len(dash'.glide) :
                     dash'.glide[i].rid # ev[e]
           /\ dash'.raised_in = "append_rows" => ev = <<>>
           /\ (dash.runs >= 1 /\ dash.raised_in # "append_rows") => ev = <<>>]_vars

\* C36 witness: the first run appended Glide rows and sent their events, the
\* second run sent none.
C36_Witness ==
  /\ dash.state = "ready" /\ dash.runs = 2 /\ dash.result = "ok"
  /\ dash.sent_before >= 1
  /\ dash.events = <<>>

\* The rows of a list of sheet rows, or of Glide payloads, with sync key k.
AppendsWithKey(k) ==
  {i \in 1..Len(dash.sheet_appends) :
     dash.sheet_appends[i][idx1(SYNCKEY_HEADER)] = k}
AddsWithKey(k) ==
  {i \in 1..Len(dash.glide_adds) : dash.glide_adds[i].key = k}

\* C39: a run appends at most one row to the tab per sync key and adds at
\* most one row to Glide per sync key.
C39_OneRowPerKey ==
  \A k \in {Strip(x) : x \in DashKeys} :
    /\ Cardinality(AppendsWithKey(k)) <= 1
    /\ Cardinality(AddsWithKey(k)) <= 1

\* The add-row mutations of the last run of jobs/04 for the supplier id k.
AddsFor4(k) ==
  {i \in 1..Len(sup.mutations) :
     /\ sup.mutations[i].kind = "add-row-to-table"
     /\ norm_key(sup.mutations[i].columnValues.sid) = k}

\* C40: a run of jobs/04 queues at most one add-row mutation per normalized
\* supplier id, and the Glide table after the run is the fetched table with
\* the queued mutations applied once each, in the order they were queued.
C40_OneAddPerSupplier ==
  sup.runs >= 1 =>
    /\ \A k \in {norm_key(x) : x \in SupplierIds} : Cardinality(AddsFor4(k)) <= 1
    /\ sup.glide = glide_mutate(sup.fetched, sup.mutations)

\* The numbers listed in a sequence of row numbers.
Listed(rns) == {rns[i] : i \in 1..Len(rns)}

\* What the plan of a run does with empty keys: a sheet row with an empty
\* key cell is the row of no key of the sheet index, is in neither list of
\* rows to delete and gets no cell update; no row planned for appending has
\* an empty key.
PlanSkipsEmptyKeys ==
  /\ \A i \in 1..Len(sheet) :
       KeyOf(sheet[i], header, KeyCol) = "" =>
         /\ \A k \in Listed(sheet_keys(sheet, header, KeyCol)) :
              rownum_by_key(sheet, header, KeyCol, k) # i + 1
         /\ (i + 1) \notin Listed(out'.duplicates)
         /\ (i + 1) \notin Listed(out'.rows_to_delete)
         /\ \A u \in 1..Len(out'.updated_cells) : out'.updated_cells[u][1] # i + 1
  /\ \A a \in 1..Len(out'.rows_to_append) : out'.rows_to_append[a][KeyCol] # ""

\* C37 as stated: in a run of the diff the plan skips empty keys, and a
\* completed run, in either write mode, leaves every sheet row with an empty
\* key cell in the sheet.
C37_EmptyKeyNeverDeleted ==
  [][out'.path = "diff" =>
       /\ PlanSkipsEmptyKeys
       /\ out'.result = "ok" =>
            \A i \in 1..Len(sheet) :
              KeyOf(sheet[i], header, KeyCol) = "" =>
                \E j \in 1..Len(sheet') : sheet'[j] = sheet[i]]_vars

\* C37 amended: in a run of the diff the plan skips empty keys; a completed
\* delta run leaves every sheet row with an empty key cell as it was, below
\* the rows kept above it; a completed full run leaves no such row.
C37_EmptyKeysSkipped ==
  [][out'.path = "diff" =>
       /\ PlanSkipsEmptyKeys
       /\ (out'.result = "ok" /\ out'.mode = "delta") =>
            \A i \in 1..Len(sheet) :
              KeyOf(sheet[i], header, KeyCol) = "" =>
                LET j == i - Cardinality({d \in Listed(out'.rows_to_delete) : d < i + 1})
                IN  j \in 1..Len(sheet') /\ sheet'[j] = sheet[i]
       /\ (out'.result = "ok" /\ out'.mode = "full") =>
            \A j \in 1..Len(sheet') : KeyOf(sheet'[j], header, KeyCol) # ""]_vars

\* C37 witness: a completed delta run deleted a row and left a row with an
\* empty key cell in the sheet, while Glide holds a row with an empty key.
C37_Witness ==
  /\ out.result = "ok" /\ out.path = "diff" /\ out.mode = "delta"
  /\ out.rows_to_delete # <<>>
  /\ \E i \in 1..Len(sheet) : KeyOf(sheet[i], header, KeyCol) = ""
  /\ \E g \in 1..Len(glide) : Get(glide[g], UNIQUE_KEY) = ""

\* The last Glide row with the key k.
LastGlideRow(k) ==
  glide[CHOOSE i \in 1..Len(glide) :
          /\ Get(glide[i], UNIQUE_KEY) = k
          /\ \A j \in (i + 1)..Len(glide) : Get(glide[j], UNIQUE_KEY) # k]

\* C38: the rows a run plans to append have pairwise different keys, each
\* holds the values of the last Glide row with its key, and they stand in
\* the order of the first occurrences of their keys in Glide.
C38_OneAppendPerKey ==
  [][out'.path = "diff" =>
       LET app == out'.rows_to_append
           first(k) == CHOOSE i \in 1..Len(glide) :
                         /\ Get(glide[i], UNIQUE_KEY) = k
                         /\ \A j \in 1..(i - 1) : Get(glide[j], UNIQUE_KEY) # k
       IN  \A a \in 1..Len(app) :
             /\ \A b \in 1..Len(app) : app[a][KeyCol] = app[b][KeyCol] => a = b
             /\ app[a] = row_into_width(LastGlideRow(app[a][KeyCol]), header)
             /\ \A b \in 1..Len(app) :
                  a < b => first(app[a][KeyCol]) < first(app[b][KeyCol])]_vars

\* C38 witness: two Glide rows share a key the sheet lacks and differ in
\* status; the run planned one row for the key, with the later status.
C38_Witness ==
  /\ out.path = "diff"
  /\ Len(out.rows_to_append) = 1
  /\ Len(glide) = 2
  /\ Get(glide[1], UNIQUE_KEY) = Get(glide[2], UNIQUE_KEY)
  /\ Get(glide[1], "st") # Get(glide[2], "st")
  /\ out.rows_to_append[1] = row_into_width(glide[2], header)

====
